---------------------------- MODULE Spec2Model ----------------------------
(***************************************************************************)
(* Catmull-Clark subdivision with semi-sharp creases over a half-edge      *)
(* mesh (3_catmark_subdiv): the mesh, the subdivider, the limit-position   *)
(* display and the window handlers that drive them.                        *)
(*                                                                         *)
(* Storage is modelled index-wise: a pointer into a mesh's vertex,         *)
(* half-edge or face vector is the 0-based index of the element, and the   *)
(* null pointer is Null.  Element i of a QVector is element i+1 of the     *)
(* sequence that models it.  Coordinates are exact rationals (the float    *)
(* rounding of QVector3D is not modelled).                                 *)
(***************************************************************************)
EXTENDS Integers, Sequences, FiniteSets, TLC

Null == 0 - 1

Abs(a) == IF a < 0 THEN 0 - a ELSE a

Min(a, b) == IF a < b THEN a ELSE b

Max(a, b) == IF a > b THEN a ELSE b

RECURSIVE GCD(_, _)
GCD(a, b) == IF b = 0 THEN a ELSE GCD(b, a % b)

LCM(a, b) == (a \div GCD(a, b)) * b

(***************************************************************************)
(* QVector3D with exact components: <<x, y, z, d>> stands for              *)
(* (x/d, y/d, z/d), d > 0, in lowest terms.                                *)
(***************************************************************************)
VNorm(x, y, z, d) ==
  LET g == GCD(GCD(Abs(x), Abs(y)), GCD(Abs(z), d))
  IN  <<x \div g, y \div g, z \div g, d \div g>>

Vec3(x, y, z) == <<x, y, z, 1>>

VZero == Vec3(0, 0, 0)

VAdd(a, b) ==
  IF a[4] <= 0 \/ b[4] <= 0 THEN a
  ELSE LET l  == LCM(a[4], b[4])
           fa == l \div a[4]
           fb == l \div b[4]
       IN  VNorm(a[1] * fa + b[1] * fb, a[2] * fa + b[2] * fb,
                 a[3] * fa + b[3] * fb, l)

\* a * (p / q), q > 0
VScale(a, p, q) ==
  IF a[4] <= 0 THEN a
  ELSE LET g1 == GCD(GCD(Abs(a[1]), Abs(a[2])), GCD(Abs(a[3]), q))
           g2 == GCD(Abs(p), a[4])
           pp == p \div g2
       IN  VNorm((a[1] \div g1) * pp, (a[2] \div g1) * pp,
                 (a[3] \div g1) * pp, (a[4] \div g2) * (q \div g1))


(***************************************************************************)
(* The mesh entities.                                                      *)
(***************************************************************************)
Vertex(coords, out, valence, index) ==
  [coords |-> coords, out |-> out, valence |-> valence, index |-> index]

HalfEdge(origin, next, prev, twin, face, index) ==
  [origin |-> origin, next |-> next, prev |-> prev, twin |-> twin,
   face |-> face, index |-> index, edgeIndex |-> 0, sharpness |-> 0]

Face(side, valence, index) ==
  [side |-> side, valence |-> valence, index |-> index]

\* the elements QVector::resize default-constructs
DefaultVertex == Vertex(VZero, Null, 0, 0)

DefaultHalfEdge == HalfEdge(Null, Null, Null, Null, Null, 0)

DefaultFace == Face(Null, 0, 0)

\* Mesh::Mesh(): an empty mesh
EmptyMesh ==
  [vertices |-> <<>>, halfEdges |-> <<>>, faces |-> <<>>, edgeCount |-> 0,
   originalCoords |-> <<>>]

numVerts(mesh) == Len(mesh.vertices)

numHalfEdges(mesh) == Len(mesh.halfEdges)

numFaces(mesh) == Len(mesh.faces)

numEdges(mesh) == mesh.edgeCount

\* element access by 0-based index
VertexAt(mesh, v) == mesh.vertices[v + 1]

HalfEdgeAt(mesh, h) == mesh.halfEdges[h + 1]

FaceAt(mesh, f) == mesh.faces[f + 1]

(***************************************************************************)
(* HalfEdge and Vertex member functions.  Of HalfEdge only the             *)
(* declarations are present; the index functions use the pointer when it   *)
(* is set and the quad arithmetic of a freshly resized half-edge           *)
(* otherwise.                                                              *)
(***************************************************************************)
\* twinIdx of a half-edge that is taken to lie on the boundary
twinIdxNone(mesh, he) == Null

twinIdx(mesh, he) == IF he.twin = Null THEN Null ELSE HalfEdgeAt(mesh, he.twin).index

\* nextIdx that runs through the half-edges without closing the quad
nextIdxOpen(mesh, he) ==
  IF he.next # Null THEN HalfEdgeAt(mesh, he.next).index
  ELSE IF he.index % 4 = 3 THEN (he.index + 1) % numHalfEdges(mesh)
  ELSE he.index + 1

nextIdx(mesh, he) ==
  IF he.next # Null THEN HalfEdgeAt(mesh, he.next).index
  ELSE IF he.index % 4 = 3 THEN he.index - 3 ELSE he.index + 1

\* prevIdx that steps forward round the quad of a fresh half-edge
prevIdxForward(mesh, he) ==
  IF he.prev # Null THEN HalfEdgeAt(mesh, he.prev).index
  ELSE IF he.index % 4 = 3 THEN he.index - 3 ELSE he.index + 1

prevIdx(mesh, he) ==
  IF he.prev # Null THEN HalfEdgeAt(mesh, he.prev).index
  ELSE IF he.index % 4 = 0 THEN he.index + 3 ELSE he.index - 1

faceIdx(mesh, he) ==
  IF he.face # Null THEN FaceAt(mesh, he.face).index ELSE he.index \div 4

edgeIdx(he) == he.edgeIndex

isBoundaryEdge(he) == he.twin = Null

\* halfedge.h: "Returns true if sharpness > 0 or == -1 (infinite)"
isSharpEdge(he) == he.sharpness > 0 \/ he.sharpness = 0 - 1

\* the half-edge h points at
Dest(mesh, he) == HalfEdgeAt(mesh, he.next).origin

(***************************************************************************)
(* Vertex::isBoundaryVertex, nextBoundaryHalfEdge, prevBoundaryHalfEdge:   *)
(* walks around the vertex that start at its out half-edge.  A vertex is   *)
(* on the boundary when the walk meets a half-edge without twin; the next  *)
(* boundary half-edge leaves the vertex, the previous one arrives at it.   *)
(***************************************************************************)
RECURSIVE RingMeetsBoundary(_, _, _, _)
RingMeetsBoundary(mesh, start, h, fuel) ==
  LET he == HalfEdgeAt(mesh, h)
      pt == HalfEdgeAt(mesh, he.prev).twin
  IN  IF he.twin = Null \/ pt = Null THEN TRUE
      ELSE IF pt = start \/ fuel = 0 THEN FALSE
      ELSE RingMeetsBoundary(mesh, start, pt, fuel - 1)

isBoundaryVertex(mesh, v) ==
  LET vert == VertexAt(mesh, v)
  IN  vert.out # Null /\ RingMeetsBoundary(mesh, vert.out, vert.out, numHalfEdges(mesh))

RECURSIVE WalkToNextBoundary(_, _, _)
WalkToNextBoundary(mesh, h, fuel) ==
  LET he == HalfEdgeAt(mesh, h)
  IN  IF he.twin = Null \/ fuel = 0 THEN h
      ELSE WalkToNextBoundary(mesh, HalfEdgeAt(mesh, he.twin).next, fuel - 1)

nextBoundaryHalfEdge(mesh, v) ==
  WalkToNextBoundary(mesh, VertexAt(mesh, v).out, numHalfEdges(mesh))

RECURSIVE WalkToPrevBoundary(_, _, _)
WalkToPrevBoundary(mesh, h, fuel) ==
  LET he == HalfEdgeAt(mesh, h)
  IN  IF he.twin = Null \/ fuel = 0 THEN h
      ELSE WalkToPrevBoundary(mesh, HalfEdgeAt(mesh, he.twin).prev, fuel - 1)

prevBoundaryHalfEdge(mesh, v) ==
  WalkToPrevBoundary(mesh, HalfEdgeAt(mesh, VertexAt(mesh, v).out).prev,
                     numHalfEdges(mesh))

(***************************************************************************)
(* MeshInitializer::constructHalfEdgeMesh: the half-edge mesh of an        *)
(* imported polygon list.  Half-edges are numbered face by face; twins are *)
(* the two directions of a vertex pair; the edge index counts undirected   *)
(* edges in the order of their first half-edge.                            *)
(***************************************************************************)
RECURSIVE PolySlots(_, _, _)
PolySlots(polys, f, off) ==
  IF f > Len(polys) THEN <<>>
  ELSE [k \in 1..Len(polys[f]) |->
          [face |-> f - 1, k |-> k - 1, n |-> Len(polys[f]), off |-> off]]
       \o PolySlots(polys, f + 1, off + Len(polys[f]))

constructHalfEdgeMesh(coords, polys) ==
  LET slots == PolySlots(polys, 1, 0)
      H == Len(slots)
      Hs == 0..(H - 1)
      org == [h \in Hs |-> polys[slots[h + 1].face + 1][slots[h + 1].k + 1]]
      dst == [h \in Hs |->
                polys[slots[h + 1].face + 1][((slots[h + 1].k + 1) % slots[h + 1].n) + 1]]
      twn == [h \in Hs |->
                IF \E g \in Hs : org[g] = dst[h] /\ dst[g] = org[h]
                THEN CHOOSE g \in Hs : org[g] = dst[h] /\ dst[g] = org[h]
                ELSE Null]
      rep == [h \in Hs |-> IF twn[h] = Null THEN h ELSE Min(h, twn[h])]
      reps == {rep[h] : h \in Hs}
      outOf(v) ==
        IF \E h \in Hs : org[h] = v /\ twn[h] = Null
        THEN CHOOSE h \in Hs : org[h] = v /\ twn[h] = Null
        ELSE CHOOSE h \in Hs : org[h] = v /\ \A g \in Hs : org[g] = v => h <= g
  IN  [vertices |->
         [i \in 1..Len(coords) |->
            Vertex(coords[i], outOf(i - 1),
                   Cardinality({rep[h] : h \in {g \in Hs : org[g] = i - 1 \/ dst[g] = i - 1}}),
                   i - 1)] \o <<>>,
       halfEdges |->
         [i \in 1..H |->
            LET s == slots[i]
            IN  [origin |-> org[i - 1],
                 next |-> s.off + ((s.k + 1) % s.n),
                 prev |-> s.off + ((s.k + s.n - 1) % s.n),
                 twin |-> twn[i - 1],
                 face |-> s.face,
                 index |-> i - 1,
                 edgeIndex |-> Cardinality({r \in reps : r < rep[i - 1]}),
                 sharpness |-> 0]] \o <<>>,
       faces |->
         [f \in 1..Len(polys) |->
            Face(CHOOSE h \in Hs : slots[h + 1].face = f - 1 /\ slots[h + 1].k = 0,
                 Len(polys[f]), f - 1)] \o <<>>,
       edgeCount |-> Cardinality(reps),
       originalCoords |-> <<>>]

(***************************************************************************)
(* CatmullClarkSubdivider: the stencils.  `mesh` is the control mesh the   *)
(* vertex, half-edge or face belongs to.                                   *)
(***************************************************************************)
OriginCoords(mesh, he) == VertexAt(mesh, he.origin).coords

RECURSIVE facePointSum(_, _, _, _)
facePointSum(mesh, edge, side, valence) ==
  IF side >= valence THEN VZero
  ELSE VAdd(OriginCoords(mesh, HalfEdgeAt(mesh, edge)),
            facePointSum(mesh, HalfEdgeAt(mesh, edge).next, side + 1, valence))

\* facePoint that divides by 4 whatever the face
facePointOverFour(mesh, face) ==
  VScale(facePointSum(mesh, face.side, 0, face.valence), 1, 4)

facePoint(mesh, face) ==
  VScale(facePointSum(mesh, face.side, 0, face.valence), 1, face.valence)

boundaryEdgePoint(mesh, edge) ==
  VScale(VAdd(OriginCoords(mesh, edge),
              OriginCoords(mesh, HalfEdgeAt(mesh, edge.next))), 1, 2)

sharpEdgePoint(mesh, edge) ==
  VScale(VAdd(OriginCoords(mesh, edge),
              OriginCoords(mesh, HalfEdgeAt(mesh, edge.next))), 1, 2)

\* edgePoint that stops at the midpoint
edgePointAtMidpoint(mesh, edge) == boundaryEdgePoint(mesh, edge)

edgePoint(mesh, edge) ==
  VScale(VAdd(boundaryEdgePoint(mesh, edge),
              VScale(VAdd(facePoint(mesh, FaceAt(mesh, edge.face)),
                          facePoint(mesh, FaceAt(mesh, HalfEdgeAt(mesh, edge.twin).face))),
                     1, 2)),
         1, 2)

\* the loop of vertexPoint: <<R, Q>> summed over the ring of the vertex
RECURSIVE vertexPointSums(_, _, _, _)
vertexPointSums(mesh, edge, i, valence) ==
  IF i >= valence THEN <<VZero, VZero>>
  ELSE LET he   == HalfEdgeAt(mesh, edge)
           rest == vertexPointSums(mesh, HalfEdgeAt(mesh, he.prev).twin, i + 1, valence)
       IN  <<VAdd(boundaryEdgePoint(mesh, he), rest[1]),
             VAdd(facePoint(mesh, FaceAt(mesh, he.face)), rest[2])>>

vertexPoint(mesh, vertex) ==
  LET sums == vertexPointSums(mesh, vertex.out, 0, vertex.valence)
      n    == vertex.valence
      Q    == VScale(sums[2], 1, n)
      R    == VScale(sums[1], 1, n)
  IN  VScale(VAdd(VAdd(Q, VScale(R, 2, 1)), VScale(vertex.coords, n - 3, 1)), 1, n)

boundaryVertexPoint(mesh, vertex) ==
  VScale(VAdd(VAdd(VScale(vertex.coords, 2, 1),
                   boundaryEdgePoint(mesh,
                     HalfEdgeAt(mesh, nextBoundaryHalfEdge(mesh, vertex.index)))),
              boundaryEdgePoint(mesh,
                HalfEdgeAt(mesh, prevBoundaryHalfEdge(mesh, vertex.index)))),
         1, 4)

\* the do-while loop of countCreaseEdges; `found` is creaseEdgeIndices
RECURSIVE countCreaseEdgesLoop(_, _, _, _, _)
countCreaseEdgesLoop(mesh, vertex, h, iterations, found) ==
  LET he     == HalfEdgeAt(mesh, h)
      found1 == IF isSharpEdge(he) THEN found \cup {he.edgeIndex} ELSE found
      h1     == HalfEdgeAt(mesh, he.prev).twin
  IN  IF h1 = Null THEN found1
      ELSE IF h1 # vertex.out /\ iterations + 1 < vertex.valence * 2
           THEN countCreaseEdgesLoop(mesh, vertex, h1, iterations + 1, found1)
           ELSE found1

countCreaseEdges(mesh, vertex) ==
  Cardinality(countCreaseEdgesLoop(mesh, vertex, vertex.out, 0, {}))

\* the do-while loop of creaseVertexPoint; `ce` is <<creaseEdge1, creaseEdge2>>
RECURSIVE creaseVertexPointLoop(_, _, _, _, _, _)
creaseVertexPointLoop(mesh, vertex, h, iterations, found, ce) ==
  LET he   == HalfEdgeAt(mesh, h)
      hit  == isSharpEdge(he) /\ he.edgeIndex \notin found
      ce1  == IF hit /\ ce[1] = Null THEN <<h, ce[2]>>
              ELSE IF hit /\ ce[2] = Null THEN <<ce[1], h>>
              ELSE ce
      fnd1 == IF hit THEN found \cup {he.edgeIndex} ELSE found
      h1   == HalfEdgeAt(mesh, he.prev).twin
  IN  IF hit /\ ce[1] # Null /\ ce[2] = Null THEN ce1
      ELSE IF h1 = Null THEN ce1
      ELSE IF h1 # vertex.out /\ iterations + 1 < vertex.valence * 2
           THEN creaseVertexPointLoop(mesh, vertex, h1, iterations + 1, fnd1, ce1)
           ELSE ce1

\* the smooth rule where the crease rule belongs
creaseVertexPointSmooth(mesh, vertex) == vertexPoint(mesh, vertex)

creaseVertexPoint(mesh, vertex) ==
  LET ce == creaseVertexPointLoop(mesh, vertex, vertex.out, 0, {}, <<Null, Null>>)
  IN  IF ce[1] # Null /\ ce[2] # Null
      THEN VAdd(VAdd(VScale(vertex.coords, 1, 2),
                     VScale(sharpEdgePoint(mesh, HalfEdgeAt(mesh, ce[1])), 1, 4)),
                VScale(sharpEdgePoint(mesh, HalfEdgeAt(mesh, ce[2])), 1, 4))
      ELSE vertex.coords

(***************************************************************************)
(* reserveSizes: newMesh arrives empty and leaves with its three vectors   *)
(* resized and its edge count set.                                         *)
(***************************************************************************)
\* reserveSizes with one edge too many counted
reserveSizesExtraEdge(controlMesh, newMesh) ==
  [newMesh EXCEPT
     !.vertices  = [i \in 1..(numVerts(controlMesh) + numFaces(controlMesh)
                              + numEdges(controlMesh)) |-> DefaultVertex] \o <<>>,
     !.halfEdges = [i \in 1..(numHalfEdges(controlMesh) * 4) |->
                      DefaultHalfEdge] \o <<>>,
     !.faces     = [i \in 1..numHalfEdges(controlMesh) |-> DefaultFace] \o <<>>,
     !.edgeCount = 2 * numEdges(controlMesh) + numHalfEdges(controlMesh) + 1]

reserveSizes(controlMesh, newMesh) ==
  LET newNumEdges     == 2 * numEdges(controlMesh) + numHalfEdges(controlMesh)
      newNumFaces     == numHalfEdges(controlMesh)
      newNumHalfEdges == numHalfEdges(controlMesh) * 4
      newNumVerts     == numVerts(controlMesh) + numFaces(controlMesh)
                         + numEdges(controlMesh)
  IN  [newMesh EXCEPT
         !.vertices  = [i \in 1..newNumVerts |-> DefaultVertex] \o <<>>,
         !.halfEdges = [i \in 1..newNumHalfEdges |-> DefaultHalfEdge] \o <<>>,
         !.faces     = [i \in 1..newNumFaces |-> DefaultFace] \o <<>>,
         !.edgeCount = newNumEdges]

(***************************************************************************)
(* geometryRefinement: three loops over the control mesh, each writing     *)
(* into newVertices.  A loop over lo..hi is run in index order: the first  *)
(* half of the range is finished (`done`) before the second half starts.   *)
(* The range is halved only to keep the recursion shallow.                 *)
(***************************************************************************)
\* the face-point loop that takes every face for a quad
facePointStepAsQuad(controlMesh, newVertices, f) ==
  LET face == FaceAt(controlMesh, f)
      i    == numVerts(controlMesh) + face.index
  IN  [newVertices EXCEPT
         ![i + 1] = Vertex(facePoint(controlMesh, face), Null, 4, i)]

facePointStep(controlMesh, newVertices, f) ==
  LET face == FaceAt(controlMesh, f)
      i    == numVerts(controlMesh) + face.index
  IN  [newVertices EXCEPT
         ![i + 1] = Vertex(facePoint(controlMesh, face), Null, face.valence, i)]

RECURSIVE facePointLoop(_, _, _, _)
facePointLoop(controlMesh, newVertices, lo, hi) ==
  IF lo > hi THEN newVertices
  ELSE IF lo = hi THEN facePointStep(controlMesh, newVertices, lo)
  ELSE LET done == facePointLoop(controlMesh, newVertices, lo, (lo + hi) \div 2)
       IN  IF Len(done) >= 0
           THEN facePointLoop(controlMesh, done, ((lo + hi) \div 2) + 1, hi)
           ELSE done

\* the edge-point loop that gives every edge point valence 4
edgePointStepAllFour(controlMesh, newVertices, h) ==
  LET currentEdge == HalfEdgeAt(controlMesh, h)
      v == numVerts(controlMesh) + numFaces(controlMesh) + edgeIdx(currentEdge)
  IN  IF h > twinIdx(controlMesh, currentEdge)
      THEN [newVertices EXCEPT
              ![v + 1] =
                 IF isBoundaryEdge(currentEdge)
                 THEN Vertex(boundaryEdgePoint(controlMesh, currentEdge), Null, 4, v)
                 ELSE IF isSharpEdge(currentEdge)
                 THEN Vertex(sharpEdgePoint(controlMesh, currentEdge), Null, 4, v)
                 ELSE Vertex(edgePoint(controlMesh, currentEdge), Null, 4, v)]
      ELSE newVertices

edgePointStep(controlMesh, newVertices, h) ==
  LET currentEdge == HalfEdgeAt(controlMesh, h)
      v == numVerts(controlMesh) + numFaces(controlMesh) + edgeIdx(currentEdge)
  IN  IF h > twinIdx(controlMesh, currentEdge)
      THEN [newVertices EXCEPT
              ![v + 1] =
                 IF isBoundaryEdge(currentEdge)
                 THEN Vertex(boundaryEdgePoint(controlMesh, currentEdge), Null, 3, v)
                 ELSE IF isSharpEdge(currentEdge)
                 THEN Vertex(sharpEdgePoint(controlMesh, currentEdge), Null, 4, v)
                 ELSE Vertex(edgePoint(controlMesh, currentEdge), Null, 4, v)]
      ELSE newVertices

RECURSIVE edgePointLoop(_, _, _, _)
edgePointLoop(controlMesh, newVertices, lo, hi) ==
  IF lo > hi THEN newVertices
  ELSE IF lo = hi THEN edgePointStep(controlMesh, newVertices, lo)
  ELSE LET done == edgePointLoop(controlMesh, newVertices, lo, (lo + hi) \div 2)
       IN  IF Len(done) >= 0
           THEN edgePointLoop(controlMesh, done, ((lo + hi) \div 2) + 1, hi)
           ELSE done

\* the vertex loop without the corner case
vertexPointCoordsNoCorner(controlMesh, v) ==
  LET vertex == VertexAt(controlMesh, v)
  IN  IF isBoundaryVertex(controlMesh, v)
      THEN boundaryVertexPoint(controlMesh, vertex)
      ELSE IF countCreaseEdges(controlMesh, vertex) = 2
           THEN creaseVertexPoint(controlMesh, vertex)
           ELSE vertexPoint(controlMesh, vertex)

\* the position geometryRefinement gives to vertex v of the control mesh
\* the vertex loop that takes one crease edge for a corner
vertexPointCoordsOneSharpCorner(controlMesh, v) ==
  LET vertex == VertexAt(controlMesh, v)
  IN  IF isBoundaryVertex(controlMesh, v)
      THEN boundaryVertexPoint(controlMesh, vertex)
      ELSE IF countCreaseEdges(controlMesh, vertex) >= 3
                \/ countCreaseEdges(controlMesh, vertex) = 1
           THEN vertex.coords
           ELSE IF countCreaseEdges(controlMesh, vertex) = 2
           THEN creaseVertexPoint(controlMesh, vertex)
           ELSE vertexPoint(controlMesh, vertex)

vertexPointCoords(controlMesh, v) ==
  LET vertex == VertexAt(controlMesh, v)
  IN  IF isBoundaryVertex(controlMesh, v)
      THEN boundaryVertexPoint(controlMesh, vertex)
      ELSE LET numCreaseEdges == countCreaseEdges(controlMesh, vertex)
           IN  IF numCreaseEdges >= 3 THEN vertex.coords
               ELSE IF numCreaseEdges = 2 THEN creaseVertexPoint(controlMesh, vertex)
               ELSE vertexPoint(controlMesh, vertex)

vertexPointStep(controlMesh, newVertices, v) ==
  [newVertices EXCEPT
     ![v + 1] = Vertex(vertexPointCoords(controlMesh, v), Null,
                       VertexAt(controlMesh, v).valence, v)]

RECURSIVE vertexPointLoop(_, _, _, _)
vertexPointLoop(controlMesh, newVertices, lo, hi) ==
  IF lo > hi THEN newVertices
  ELSE IF lo = hi THEN vertexPointStep(controlMesh, newVertices, lo)
  ELSE LET done == vertexPointLoop(controlMesh, newVertices, lo, (lo + hi) \div 2)
       IN  IF Len(done) >= 0
           THEN vertexPointLoop(controlMesh, done, ((lo + hi) \div 2) + 1, hi)
           ELSE done

geometryRefinement(controlMesh, newMesh) ==
  LET afterFaces == facePointLoop(controlMesh, newMesh.vertices, 0,
                                  numFaces(controlMesh) - 1)
  IN  IF Len(afterFaces) < 0 THEN newMesh
      ELSE
  LET afterEdges == edgePointLoop(controlMesh, afterFaces, 0,
                                  numHalfEdges(controlMesh) - 1)
  IN  IF Len(afterEdges) < 0 THEN newMesh
      ELSE
  LET afterVerts == vertexPointLoop(controlMesh, afterEdges, 0,
                                    numVerts(controlMesh) - 1)
  IN  IF Len(afterVerts) < 0 THEN newMesh
      ELSE [newMesh EXCEPT !.vertices = afterVerts]

(***************************************************************************)
(* setHalfEdgeData and topologyRefinement.                                 *)
(***************************************************************************)
\* setHalfEdgeData that never links a twin
setHalfEdgeDataNoTwin(newMesh, h, edgeIdx_, vertIdx, twinIdx_) ==
  LET he0 == [HalfEdgeAt(newMesh, h) EXCEPT
                !.edgeIndex = edgeIdx_, !.index = h, !.origin = vertIdx]
      fi  == faceIdx(newMesh, he0)
      he1 == [he0 EXCEPT !.face = fi]
      ni  == nextIdx(newMesh, he1)
      he2 == [he1 EXCEPT !.next = ni]
      pi  == prevIdx(newMesh, he2)
      he3 == [he2 EXCEPT !.prev = pi, !.twin = Null]
  IN  [newMesh EXCEPT
         !.halfEdges[h + 1] = he3,
         !.vertices[vertIdx + 1].out = h,
         !.vertices[vertIdx + 1].index = vertIdx,
         !.faces[fi + 1].side = h]

\* setHalfEdgeData that numbers the edge after the half-edge
setHalfEdgeDataOwnEdge(newMesh, h, edgeIdx_, vertIdx, twinIdx_) ==
  LET he0 == [HalfEdgeAt(newMesh, h) EXCEPT
                !.edgeIndex = h, !.index = h, !.origin = vertIdx]
      fi  == faceIdx(newMesh, he0)
      he1 == [he0 EXCEPT !.face = fi]
      ni  == nextIdx(newMesh, he1)
      he2 == [he1 EXCEPT !.next = ni]
      pi  == prevIdx(newMesh, he2)
      he3 == [he2 EXCEPT !.prev = pi,
                         !.twin = IF twinIdx_ < 0 THEN Null ELSE twinIdx_]
  IN  [newMesh EXCEPT
         !.halfEdges[h + 1] = he3,
         !.vertices[vertIdx + 1].out = h,
         !.vertices[vertIdx + 1].index = vertIdx,
         !.faces[fi + 1].side = h]

setHalfEdgeData(newMesh, h, edgeIdx_, vertIdx, twinIdx_) ==
  LET he0 == [HalfEdgeAt(newMesh, h) EXCEPT
                !.edgeIndex = edgeIdx_, !.index = h, !.origin = vertIdx]
      fi  == faceIdx(newMesh, he0)
      he1 == [he0 EXCEPT !.face = fi]
      ni  == nextIdx(newMesh, he1)
      he2 == [he1 EXCEPT !.next = ni]
      pi  == prevIdx(newMesh, he2)
      he3 == [he2 EXCEPT !.prev = pi,
                         !.twin = IF twinIdx_ < 0 THEN Null ELSE twinIdx_]
  IN  [newMesh EXCEPT
         !.halfEdges[h + 1] = he3,
         !.vertices[vertIdx + 1].out = h,
         !.vertices[vertIdx + 1].index = vertIdx,
         !.faces[fi + 1].side = h]

\* a decay that keeps a finite sharpness as it is
decaySharpnessKept(s) ==
  IF s > 0 THEN s ELSE IF s = 0 - 1 THEN 0 - 1 ELSE 0

\* a decay that lets an infinite sharpness run out
decaySharpnessAll(s) ==
  IF s > 0 THEN s - 1 ELSE 0

\* a decay that takes an infinite sharpness one further down
decaySharpnessBelow(s) ==
  IF s > 0 THEN s - 1 ELSE IF s = 0 - 1 THEN 0 - 2 ELSE 0

\* the sharpness a child edge along an edge of sharpness s gets
decaySharpness(s) ==
  IF s > 0 THEN s - 1 ELSE IF s = 0 - 1 THEN 0 - 1 ELSE 0

\* one iteration of the half-edge loop of topologyRefinement
topologyStep(controlMesh, newMesh, h) ==
  LET edge == HalfEdgeAt(controlMesh, h)
      prev == HalfEdgeAt(controlMesh, edge.prev)
      h1 == 4 * h
      h2 == 4 * h + 1
      h3 == 4 * h + 2
      h4 == 4 * h + 3
      twinIdx1 == IF twinIdx(controlMesh, edge) < 0 THEN 0 - 1
                  ELSE 4 * HalfEdgeAt(controlMesh,
                             HalfEdgeAt(controlMesh, edge.twin).next).index + 3
      twinIdx2 == 4 * HalfEdgeAt(controlMesh, edge.next).index + 2
      twinIdx3 == 4 * prev.index + 1
      twinIdx4 == 4 * twinIdx(controlMesh, prev)
      vertIdx1 == VertexAt(controlMesh, edge.origin).index
      vertIdx2 == numVerts(controlMesh) + numFaces(controlMesh) + edge.edgeIndex
      vertIdx3 == numVerts(controlMesh) + faceIdx(controlMesh, edge)
      vertIdx4 == numVerts(controlMesh) + numFaces(controlMesh) + prev.edgeIndex
      edgeIdx1 == 2 * edge.edgeIndex
                  + (IF h > twinIdx(controlMesh, edge) THEN 0 ELSE 1)
      edgeIdx2 == 2 * numEdges(controlMesh) + h
      edgeIdx3 == 2 * numEdges(controlMesh) + prev.index
      edgeIdx4 == 2 * prev.edgeIndex
                  + (IF prevIdx(controlMesh, edge) > twinIdx(controlMesh, prev)
                     THEN 1 ELSE 0)
      m1 == setHalfEdgeData(newMesh, h1, edgeIdx1, vertIdx1, twinIdx1)
      m2 == setHalfEdgeData(m1, h2, edgeIdx2, vertIdx2, twinIdx2)
      m3 == setHalfEdgeData(m2, h3, edgeIdx3, vertIdx3, twinIdx3)
      m4 == setHalfEdgeData(m3, h4, edgeIdx4, vertIdx4, twinIdx4)
      newSharpness == decaySharpness(edge.sharpness)
      m5 == [m4 EXCEPT !.halfEdges[h1 + 1].sharpness = newSharpness]
      m6 == IF twinIdx1 >= 0
            THEN [m5 EXCEPT !.halfEdges[twinIdx1 + 1].sharpness = newSharpness]
            ELSE m5
      prevEdgeSharpness == decaySharpness(prev.sharpness)
      m7 == [m6 EXCEPT !.halfEdges[h4 + 1].sharpness = prevEdgeSharpness]
      m8 == IF twinIdx4 >= 0
            THEN [m7 EXCEPT !.halfEdges[twinIdx4 + 1].sharpness = prevEdgeSharpness]
            ELSE m7
      m9 == [m8 EXCEPT !.halfEdges[h2 + 1].sharpness = 0,
                       !.halfEdges[h3 + 1].sharpness = 0]
      t2 == HalfEdgeAt(m9, h2).twin
      m10 == IF t2 # Null THEN [m9 EXCEPT !.halfEdges[t2 + 1].sharpness = 0] ELSE m9
      t3 == HalfEdgeAt(m10, h3).twin
  IN  IF t3 # Null THEN [m10 EXCEPT !.halfEdges[t3 + 1].sharpness = 0] ELSE m10

RECURSIVE topologyLoop(_, _, _, _)
topologyLoop(controlMesh, newMesh, lo, hi) ==
  IF lo > hi THEN newMesh
  ELSE IF lo = hi THEN topologyStep(controlMesh, newMesh, lo)
  ELSE LET done == topologyLoop(controlMesh, newMesh, lo, (lo + hi) \div 2)
       IN  IF Len(done.halfEdges) >= 0
           THEN topologyLoop(controlMesh, done, ((lo + hi) \div 2) + 1, hi)
           ELSE done

\* topologyRefinement that numbers the faces from 1
topologyRefinementFacesFromOne(controlMesh, newMesh) ==
  LET withFaces ==
        [newMesh EXCEPT
           !.faces = [f \in 1..numFaces(newMesh) |->
                        [newMesh.faces[f] EXCEPT !.index = f, !.valence = 4]]
                     \o <<>>]
  IN  topologyLoop(controlMesh, withFaces, 0, numHalfEdges(controlMesh) - 1)

topologyRefinement(controlMesh, newMesh) ==
  LET withFaces ==
        [newMesh EXCEPT
           !.faces = [f \in 1..numFaces(newMesh) |->
                        [newMesh.faces[f] EXCEPT !.index = f - 1, !.valence = 4]]
                     \o <<>>]
  IN  topologyLoop(controlMesh, withFaces, 0, numHalfEdges(controlMesh) - 1)

\* CatmullClarkSubdivider::subdivide
subdivide(mesh) ==
  LET reserved == reserveSizes(mesh, EmptyMesh)
  IN  IF Len(reserved.vertices) < 0 THEN reserved
      ELSE LET refined == geometryRefinement(mesh, reserved)
           IN  IF Len(refined.vertices) < 0 THEN refined
               ELSE topologyRefinement(mesh, refined)

(***************************************************************************)
(* The imported models: a single quad, two quads sharing an edge, a        *)
(* tetrahedron and a cube.  The vertex positions are in general position   *)
(* so that different stencils give different points.                       *)
(***************************************************************************)
QuadMesh ==
  constructHalfEdgeMesh(
    <<Vec3(0, 0, 0), Vec3(4, 0, 1), Vec3(5, 3, 0), Vec3(0, 2, 2)>>,
    <<<<0, 1, 2, 3>>>>)

StripMesh ==
  constructHalfEdgeMesh(
    <<Vec3(0, 0, 0), Vec3(2, 0, 1), Vec3(5, 0, 0),
      Vec3(0, 3, 1), Vec3(2, 2, 0), Vec3(4, 3, 2)>>,
    <<<<0, 1, 4, 3>>, <<1, 2, 5, 4>>>>)

TetraMesh ==
  constructHalfEdgeMesh(
    <<Vec3(0, 0, 0), Vec3(3, 0, 1), Vec3(0, 2, 0), Vec3(1, 1, 4)>>,
    <<<<0, 2, 1>>, <<0, 1, 3>>, <<1, 2, 3>>, <<2, 0, 3>>>>)

CubeMesh ==
  constructHalfEdgeMesh(
    <<Vec3(0, 0, 0), Vec3(0, 0, 2), Vec3(0, 2, 0), Vec3(0, 2, 2),
      Vec3(2, 0, 0), Vec3(2, 0, 2), Vec3(2, 2, 0), Vec3(3, 2, 2)>>,
    <<<<0, 1, 3, 2>>, <<2, 3, 7, 6>>, <<6, 7, 5, 4>>,
      <<4, 5, 1, 0>>, <<2, 6, 4, 0>>, <<7, 3, 1, 5>>>>)

\* the half-edges of the mesh from one of the two vertices to the other
HalfEdgesJoining(mesh, vertexIdx1, vertexIdx2) ==
  {h \in 0..(numHalfEdges(mesh) - 1) :
     LET from == VertexAt(mesh, HalfEdgeAt(mesh, h).origin).index
         to   == VertexAt(mesh, Dest(mesh, HalfEdgeAt(mesh, h))).index
     IN  \/ from = vertexIdx1 /\ to = vertexIdx2
         \/ from = vertexIdx2 /\ to = vertexIdx1}

\* setCreaseEdge that, finding no edge, writes the half-edges that leave the
\* first vertex
setCreaseEdgeNearest(mesh, vertexIdx1, vertexIdx2, sharpness) ==
  [mesh EXCEPT
     !.halfEdges =
        [i \in 1..numHalfEdges(mesh) |->
           IF \/ (i - 1) \in HalfEdgesJoining(mesh, vertexIdx1, vertexIdx2)
              \/ mesh.halfEdges[i].twin
                   \in HalfEdgesJoining(mesh, vertexIdx1, vertexIdx2)
              \/ /\ HalfEdgesJoining(mesh, vertexIdx1, vertexIdx2) = {}
                 /\ VertexAt(mesh, mesh.halfEdges[i].origin).index = vertexIdx1
           THEN [mesh.halfEdges[i] EXCEPT !.sharpness = sharpness]
           ELSE mesh.halfEdges[i]] \o <<>>]

\* setCreaseEdge that leaves the twin alone
setCreaseEdgeOneSide(mesh, vertexIdx1, vertexIdx2, sharpness) ==
  [mesh EXCEPT
     !.halfEdges =
        [i \in 1..numHalfEdges(mesh) |->
           IF (i - 1) \in HalfEdgesJoining(mesh, vertexIdx1, vertexIdx2)
                /\ (mesh.halfEdges[i].twin = Null \/ mesh.halfEdges[i].twin > i - 1)
           THEN [mesh.halfEdges[i] EXCEPT !.sharpness = sharpness]
           ELSE mesh.halfEdges[i]] \o <<>>]

(***************************************************************************)
(* Mesh::setCreaseEdge: every half-edge that joins the two vertices, in    *)
(* either direction, and its twin get the sharpness.  The float argument   *)
(* is stored in the int field; the values drawn here are whole numbers.    *)
(***************************************************************************)
setCreaseEdge(mesh, vertexIdx1, vertexIdx2, sharpness) ==
  LET from(h) == VertexAt(mesh, HalfEdgeAt(mesh, h).origin).index
      to(h)   == VertexAt(mesh,
                   HalfEdgeAt(mesh, HalfEdgeAt(mesh, h).next).origin).index
      found   == {h \in 0..(numHalfEdges(mesh) - 1) :
                    \/ from(h) = vertexIdx1 /\ to(h) = vertexIdx2
                    \/ from(h) = vertexIdx2 /\ to(h) = vertexIdx1}
      written == found \cup {HalfEdgeAt(mesh, h).twin : h \in found}
  IN  [mesh EXCEPT
         !.halfEdges =
            [i \in 1..numHalfEdges(mesh) |->
               IF (i - 1) \in written
               THEN [mesh.halfEdges[i] EXCEPT !.sharpness = sharpness]
               ELSE mesh.halfEdges[i]] \o <<>>]

\* updateSharpness that leaves the twin alone
setSelectedSharpnessOneSide(mesh, h, sharpness) ==
  [mesh EXCEPT !.halfEdges[h + 1].sharpness = sharpness]

\* MainView::updateSharpness, the writes through settings.selectedEdge
setSelectedSharpness(mesh, h, sharpness) ==
  LET twin == HalfEdgeAt(mesh, h).twin
      m1   == [mesh EXCEPT !.halfEdges[h + 1].sharpness = sharpness]
  IN  IF twin # Null
      THEN [m1 EXCEPT !.halfEdges[twin + 1].sharpness = sharpness]
      ELSE m1

\* every half-edge of the mesh gets the sharpness
withUniformSharpness(mesh, sharpness) ==
  [mesh EXCEPT
     !.halfEdges = [i \in 1..numHalfEdges(mesh) |->
                      [mesh.halfEdges[i] EXCEPT !.sharpness = sharpness]] \o <<>>]

(***************************************************************************)
(* Limit positions: Mesh::backupOriginalCoordsIfNeeded,                    *)
(* restoreOriginalCoords, projectVerticesToCatmullClarkLimit and the head  *)
(* of extractAttributes.  The weight w of an interior vertex of valence n  *)
(* is (5/8 - ((3 + 2 cos(2 pi / n)) / 8)^2) / n, a fraction for the        *)
(* valences listed; the meshes of the model have no others but 0.  For     *)
(* n = 0 the float arithmetic gives 2 pi / 0 = inf, cosf(inf) = NaN, and   *)
(* with w = NaN every coordinate of (1 - w n) V + w sum is NaN.  The       *)
(* rounding of float arithmetic is left out: positions are exact.          *)
(***************************************************************************)
\* a QVector3D whose coordinates are NaN
NotANumber == <<0, 0, 0, 0>>

CoordsOf(mesh) == [i \in 1..numVerts(mesh) |-> mesh.vertices[i].coords] \o <<>>

\* a backup taken whether or not there is one already
backupOriginalCoordsAlways(mesh) ==
  [mesh EXCEPT !.originalCoords = CoordsOf(mesh)]

backupOriginalCoordsIfNeeded(mesh) ==
  IF mesh.originalCoords = <<>>
  THEN [mesh EXCEPT !.originalCoords = CoordsOf(mesh)]
  ELSE mesh

restoreOriginalCoords(mesh) ==
  IF Len(mesh.originalCoords) = numVerts(mesh)
  THEN [mesh EXCEPT
          !.vertices = [i \in 1..numVerts(mesh) |->
                          [mesh.vertices[i] EXCEPT !.coords = mesh.originalCoords[i]]]
                       \o <<>>,
          !.originalCoords = <<>>]
  ELSE mesh

\* w as <<numerator, denominator>>
limitWeight(n) ==
  CASE n = 1 -> <<15, 64>>
    [] n = 2 -> <<39, 128>>
    [] n = 3 -> <<3, 16>>
    [] n = 4 -> <<31, 256>>
    [] n = 6 -> <<1, 16>>

\* the loop over the ring of an interior vertex
RECURSIVE neighborSum(_, _, _, _)
neighborSum(mesh, h, j, n) ==
  IF j >= n THEN VZero
  ELSE VAdd(VertexAt(mesh, Dest(mesh, HalfEdgeAt(mesh, h))).coords,
            neighborSum(mesh,
                        HalfEdgeAt(mesh, HalfEdgeAt(mesh, h).prev).twin, j + 1, n))

limitPosition(mesh, vi) ==
  LET v == VertexAt(mesh, vi)
  IN  IF isBoundaryVertex(mesh, vi)
      THEN LET nextB == HalfEdgeAt(mesh, nextBoundaryHalfEdge(mesh, vi))
               prevB == HalfEdgeAt(mesh, prevBoundaryHalfEdge(mesh, vi))
               Vnext == VertexAt(mesh, Dest(mesh, nextB)).coords
               Vprev == VertexAt(mesh, prevB.origin).coords
           IN  VScale(VAdd(VAdd(Vprev, VScale(v.coords, 4, 1)), Vnext), 1, 6)
      ELSE IF v.valence = 0 THEN NotANumber
      ELSE LET n == v.valence
               w == limitWeight(n)
           IN  VAdd(VScale(v.coords, w[2] - w[1] * n, w[2]),
                    VScale(neighborSum(mesh, v.out, 0, n), w[1], w[2]))

projectVerticesToCatmullClarkLimit(mesh) ==
  [mesh EXCEPT
     !.vertices = [i \in 1..numVerts(mesh) |->
                     [mesh.vertices[i] EXCEPT !.coords = limitPosition(mesh, i - 1)]]
                  \o <<>>]

\* extractAttributes, the part that writes the mesh; show and prev are the
\* values of g_showLimitPosition and g_prevShowLimitPosition at the call
extractAttributes(mesh, show, prev) ==
  LET projected == IF show /\ ~prev
                   THEN projectVerticesToCatmullClarkLimit(
                          backupOriginalCoordsIfNeeded(mesh))
                   ELSE mesh
  IN  IF ~show /\ prev THEN restoreOriginalCoords(projected) ELSE projected

(***************************************************************************)
(* The state.  meshes is MainWindow::meshes, the per-level cache; the      *)
(* other program variables are the fields of Settings, of MainView and of  *)
(* the two spin boxes, and the two globals of mesh.cpp.  A pointer to a    *)
(* mesh is the position of the mesh in the cache; a pointer to a half-edge *)
(* or vertex is a record of the position of its mesh and its index.        *)
(* history, edits, toggles, imports, pristine, preToggle are not program   *)
(* variables: they record what has happened so that properties can speak   *)
(* about it.                                                               *)
(***************************************************************************)
VARIABLES meshes, subdivisionLevel, SubdivSteps, EdgeSharpness,
          showLimitPosition, g_showLimitPosition, g_prevShowLimitPosition,
          currentMesh, selectedEdge, selectedVertex, modelLoaded,
          fault, history, edits, toggles, imports, pristine, preToggle

uiVars == <<subdivisionLevel, SubdivSteps, EdgeSharpness, showLimitPosition,
            g_showLimitPosition, g_prevShowLimitPosition, currentMesh,
            selectedEdge, selectedVertex, modelLoaded, fault>>

ghostVars == <<toggles, imports, pristine, preToggle>>

vars == <<meshes, uiVars, history, edits, ghostVars>>

\* bounds
MaxDepth == 2

MaxEdits == 2

MaxSharp == 1

\* the half-edges a click selects in the runs: the first two of a mesh
SelectableHalfEdges == {0, 1}

MaxControlHalfEdges == 48

SharpValues == {0 - 1} \cup 0..MaxSharp

\* the vertex pairs setCreaseEdge is called with: two orientations and, on
\* the quad, the strip and the cube, a pair no edge joins; a vertex paired
\* with itself; a vertex paired with an index no mesh here has
CreasePairs == {<<0, 1>>, <<2, 0>>, <<1, 2>>, <<1, 1>>, <<0, 99>>}

BaseMeshes == {QuadMesh, StripMesh, TetraMesh, CubeMesh}

\* what a pointer holds when it is not the position of an element: nothing
\* (Null), the place of an element that is gone, or whatever the memory
\* held when the pointer was never assigned
Dangling == 0 - 2

Uninit == 0 - 3

\* a pointer to a half-edge or a vertex: its mesh and its index
Pointer(mesh, index) == [mesh |-> mesh, index |-> index]

NullPointer == Pointer(Null, Null)

DanglingPointer == Pointer(Dangling, Dangling)

UninitPointer == Pointer(Uninit, Uninit)

\* the state the constructors leave
InitUi ==
  /\ subdivisionLevel = 0
  /\ SubdivSteps = 0
  /\ EdgeSharpness = 0
  /\ showLimitPosition = FALSE
  /\ g_showLimitPosition = FALSE
  /\ g_prevShowLimitPosition = FALSE
  /\ currentMesh = Null
  /\ modelLoaded = FALSE
  /\ fault = "none"
  /\ pristine = <<>>
  /\ preToggle = <<>>
  /\ toggles = 0
  /\ imports = 0

LastMesh == meshes[Len(meshes)]

(***************************************************************************)
(* SpecSub: the subdivider and the two sharpness writers applied to        *)
(* meshes drawn from BaseMeshes with one sharpness on every edge.  The     *)
(* cache holds the chain of results: meshes[k + 1] is subdivide of         *)
(* meshes[k] as it was when the call was made, and only the last mesh of   *)
(* the chain is written.  setCreaseEdge is applied where importOBJ applies *)
(* it, to the mesh that was not yet subdivided; the selected edge is       *)
(* edited at any level.                                                    *)
(***************************************************************************)
InitSub ==
  /\ \E base \in BaseMeshes, s \in {0, 0 - 1} :
        meshes = <<withUniformSharpness(base, s)>>
  /\ history = {}
  /\ edits = 0
  /\ selectedEdge = NullPointer
  /\ selectedVertex = NullPointer
  /\ InitUi

Edited(op) ==
  /\ edits < MaxEdits
  /\ edits' = edits + 1
  /\ history' = history \cup {op}
                  \cup (IF Len(meshes) > 1 THEN {"editAfterSubdivide"} ELSE {})
  /\ UNCHANGED <<uiVars, ghostVars>>

SubSetCreaseEdge ==
  \E pair \in CreasePairs, s \in SharpValues :
    /\ Len(meshes) = 1
    /\ meshes' = [meshes EXCEPT ![1] = setCreaseEdge(@, pair[1], pair[2], s)]
    /\ Edited(IF HalfEdgesJoining(meshes[1], pair[1], pair[2]) # {}
              THEN "setCreaseEdge"
              ELSE "setCreaseEdgeNoEdge")

SubUpdateSharpness ==
  \E h \in SelectableHalfEdges, s \in SharpValues :
    /\ h < numHalfEdges(LastMesh)
    /\ meshes' = [meshes EXCEPT ![Len(meshes)] = setSelectedSharpness(@, h, s)]
    /\ Edited("updateSharpness")

SubSubdivide ==
  /\ Len(meshes) <= MaxDepth
  /\ numHalfEdges(LastMesh) <= MaxControlHalfEdges
  /\ meshes' = Append(meshes, subdivide(LastMesh))
  /\ history' = history \cup {"subdivide"}
  /\ UNCHANGED <<edits, uiVars, ghostVars>>

NextSub == SubSetCreaseEdge \/ SubUpdateSharpness \/ SubSubdivide

SpecSub == InitSub /\ [][NextSub]_vars

(***************************************************************************)
(* Properties of the subdivider, stated over the chain of SpecSub.         *)
(***************************************************************************)
IsClosed(mesh) ==
  \A h \in 0..(numHalfEdges(mesh) - 1) : HalfEdgeAt(mesh, h).twin # Null

IndexedFromZero(mesh) ==
  /\ \A i \in 1..numVerts(mesh) : mesh.vertices[i].index = i - 1
  /\ \A i \in 1..numHalfEdges(mesh) : mesh.halfEdges[i].index = i - 1
  /\ \A i \in 1..numFaces(mesh) : mesh.faces[i].index = i - 1

\* C1: the mesh one subdivide call returns has V + F + E vertices, 4H
\* half-edges, H faces and 2E + H edges, V, F, E, H being the counts of the
\* input mesh.
C1_ReservedCounts ==
  \A k \in 1..(Len(meshes) - 1) :
    /\ numVerts(meshes[k + 1]) =
         numVerts(meshes[k]) + numFaces(meshes[k]) + numEdges(meshes[k])
    /\ numHalfEdges(meshes[k + 1]) = 4 * numHalfEdges(meshes[k])
    /\ numFaces(meshes[k + 1]) = numHalfEdges(meshes[k])
    /\ numEdges(meshes[k + 1]) = 2 * numEdges(meshes[k]) + numHalfEdges(meshes[k])

\* the tetrahedron subdivided twice: 4, 14 and 50 vertices
C1_Witness ==
  /\ Len(meshes) = 3
  /\ numVerts(meshes[1]) = 4 /\ numFaces(meshes[1]) = 4
  /\ numVerts(meshes[2]) = 14 /\ numEdges(meshes[2]) = 24
  /\ numVerts(meshes[3]) = 50

\* C2: when the input mesh is closed, every half-edge of the mesh subdivide
\* returns has a twin, and so has every half-edge of every later mesh of
\* the chain.
C2_ClosedStaysClosed ==
  (Len(meshes) >= 1 /\ IsClosed(meshes[1])) =>
     \A k \in 1..Len(meshes) : IsClosed(meshes[k])

\* a closed mesh subdivided twice
C2_Witness ==
  /\ Len(meshes) = 3
  /\ IsClosed(meshes[1])
  /\ HalfEdgeAt(meshes[3], 0).twin # Null

\* C3: a subdivide call leaves every mesh that existed before the call as it
\* was, the input included, and in the mesh it returns the vertex, the
\* half-edge and the face at position i carry index i, counted from 0.
C3_InputKeptIndicesRestart ==
  [][Len(meshes') = Len(meshes) + 1 =>
        /\ SubSeq(meshes', 1, Len(meshes)) = meshes
        /\ IndexedFromZero(meshes'[Len(meshes')])]_vars

\* a result whose last face carries the index of its position
C3_Witness ==
  /\ Len(meshes) >= 2
  /\ "subdivide" \in history
  /\ FaceAt(meshes[2], numFaces(meshes[2]) - 1).index = numFaces(meshes[2]) - 1
  /\ VertexAt(meshes[2], 0).index = 0

TwinSharpnessEqual(mesh) ==
  \A h \in 0..(numHalfEdges(mesh) - 1) :
    HalfEdgeAt(mesh, h).twin # Null =>
       HalfEdgeAt(mesh, HalfEdgeAt(mesh, h).twin).sharpness
         = HalfEdgeAt(mesh, h).sharpness

\* C4: in every mesh reached by setCreaseEdge calls, edits of the selected
\* edge and subdivide calls from a mesh whose twins agree, every half-edge
\* that has a twin has the sharpness of its twin.
C4_TwinSharpnessEqual ==
  \A k \in 1..Len(meshes) : TwinSharpnessEqual(meshes[k])

\* all three operations have acted and an edge with a twin is sharp
C4_Witness ==
  /\ {"setCreaseEdge", "updateSharpness", "subdivide"} \subseteq history
  /\ \E h \in 0..(numHalfEdges(LastMesh) - 1) :
        /\ HalfEdgeAt(LastMesh, h).twin # Null
        /\ HalfEdgeAt(LastMesh, h).sharpness # 0

\* the half-edges of meshes[p] that lie along half-edge h of meshes[1]:
\* half-edge d splits into 4d, its first half, and 4 * next(d) + 3, its
\* second half
RECURSIVE Descendants(_, _)
Descendants(h, p) ==
  IF p <= 1 THEN {h}
  ELSE LET parents == Descendants(h, p - 1)
       IN  {4 * d : d \in parents}
             \cup {4 * HalfEdgeAt(meshes[p - 1], d).next + 3 : d \in parents}

HalfEdgesOf(mesh) == 0..(numHalfEdges(mesh) - 1)

VerticesOf(mesh) == 0..(numVerts(mesh) - 1)

\* the midpoint of the two ends of half-edge h
MidpointOf(mesh, h) ==
  VScale(VAdd(VertexAt(mesh, HalfEdgeAt(mesh, h).origin).coords,
              VertexAt(mesh, Dest(mesh, HalfEdgeAt(mesh, h))).coords), 1, 2)

\* the smooth edge rule: the mean of the two ends and the two face points
SmoothEdgePointOf(mesh, h) ==
  LET he == HalfEdgeAt(mesh, h)
  IN  VScale(VAdd(VAdd(VertexAt(mesh, he.origin).coords,
                       VertexAt(mesh, Dest(mesh, he)).coords),
                  VAdd(facePoint(mesh, FaceAt(mesh, he.face)),
                       facePoint(mesh, FaceAt(mesh, HalfEdgeAt(mesh, he.twin).face)))),
             1, 4)

\* the position the p-th subdivide call gave to the point of the edge of
\* half-edge d of its input
EdgePointGiven(p, d) ==
  VertexAt(meshes[p + 1],
           numVerts(meshes[p]) + numFaces(meshes[p])
             + HalfEdgeAt(meshes[p], d).edgeIndex).coords

NoEditAfterSubdivide == "editAfterSubdivide" \notin history

IncidentEdges(mesh, v) ==
  Cardinality({HalfEdgeAt(mesh, h).edgeIndex :
                 h \in {g \in HalfEdgesOf(mesh) :
                          \/ HalfEdgeAt(mesh, g).origin = v
                          \/ Dest(mesh, HalfEdgeAt(mesh, g)) = v}})

AllInfinitelySharp(mesh) ==
  \A h \in HalfEdgesOf(mesh) : HalfEdgeAt(mesh, h).sharpness = 0 - 1

\* C6: from a closed mesh all of whose edges have sharpness -1, after any
\* number of subdivide calls every half-edge along an original edge has
\* sharpness -1, every edge point made on such an edge is the midpoint of
\* its ends, and every original vertex where 3 or more edges meet is where
\* it was.
C6_InfiniteCreasesStay ==
  (IsClosed(meshes[1]) /\ AllInfinitelySharp(meshes[1]) /\ NoEditAfterSubdivide) =>
    /\ \A h \in HalfEdgesOf(meshes[1]) :
         \A p \in 1..Len(meshes) :
           \A d \in Descendants(h, p) :
             /\ HalfEdgeAt(meshes[p], d).sharpness = 0 - 1
             /\ p < Len(meshes) =>
                  EdgePointGiven(p, d) = MidpointOf(meshes[p], d)
    /\ \A v \in VerticesOf(meshes[1]) :
         IncidentEdges(meshes[1], v) >= 3 =>
           \A p \in 1..Len(meshes) :
             VertexAt(meshes[p], v).coords = VertexAt(meshes[1], v).coords

\* the tetrahedron or the cube with every edge at -1 after a second call,
\* where the midpoint of an original edge is not its smooth point
C6_Witness ==
  /\ IsClosed(meshes[1]) /\ AllInfinitelySharp(meshes[1]) /\ NoEditAfterSubdivide
  /\ Len(meshes) = 3
  /\ IncidentEdges(meshes[1], 0) >= 3
  /\ MidpointOf(meshes[2], 0) # SmoothEdgePointOf(meshes[2], 0)
  /\ EdgePointGiven(2, 0) = MidpointOf(meshes[2], 0)

\* the half-edges that start or end at vertex v
HalfEdgesAt(mesh, v) ==
  {h \in HalfEdgesOf(mesh) :
     HalfEdgeAt(mesh, h).origin = v \/ Dest(mesh, HalfEdgeAt(mesh, h)) = v}

\* the edge indices of the sharp edges that meet at vertex v
SharpEdgesAt(mesh, v) ==
  {HalfEdgeAt(mesh, h).edgeIndex :
     h \in {g \in HalfEdgesAt(mesh, v) : isSharpEdge(HalfEdgeAt(mesh, g))}}

\* vertex v lies on an edge that has one half-edge only
OnBoundary(mesh, v) ==
  \E h \in HalfEdgesAt(mesh, v) : HalfEdgeAt(mesh, h).twin = Null

\* the position the p-th subdivide call gave to vertex v of its input
VertexPointGiven(p, v) == VertexAt(meshes[p + 1], v).coords

\* C7 as stated: every vertex of the input where 3 or more sharp edges
\* meet, interior or boundary, has in the mesh subdivide returns the
\* position it had in the input.
C7_AnyCornerFixed ==
  \A p \in 1..(Len(meshes) - 1) :
    \A v \in VerticesOf(meshes[p]) :
      Cardinality(SharpEdgesAt(meshes[p], v)) >= 3 =>
        VertexPointGiven(p, v) = VertexAt(meshes[p], v).coords

\* C7, amended: every interior vertex of the input where 3 or more sharp
\* edges meet has in the mesh subdivide returns the position it had in the
\* input; a boundary vertex gets the boundary vertex point whatever the
\* sharpness of its edges.
C7_InteriorCornerFixed ==
  \A p \in 1..(Len(meshes) - 1) :
    \A v \in VerticesOf(meshes[p]) :
      IF OnBoundary(meshes[p], v)
      THEN VertexPointGiven(p, v)
             = boundaryVertexPoint(meshes[p], VertexAt(meshes[p], v))
      ELSE Cardinality(SharpEdgesAt(meshes[p], v)) >= 3 =>
             VertexPointGiven(p, v) = VertexAt(meshes[p], v).coords

\* an interior corner that the smooth rule would have moved
C7_Witness ==
  /\ Len(meshes) >= 2
  /\ \E v \in VerticesOf(meshes[1]) :
        /\ ~OnBoundary(meshes[1], v)
        /\ Cardinality(SharpEdgesAt(meshes[1], v)) >= 3
        /\ vertexPoint(meshes[1], VertexAt(meshes[1], v))
             # VertexAt(meshes[1], v).coords
        /\ VertexPointGiven(1, v) = VertexAt(meshes[1], v).coords

\* the one half-edge out of vertex v on the edge with this index
OutgoingOn(mesh, v, e) ==
  CHOOSE h \in HalfEdgesOf(mesh) :
    HalfEdgeAt(mesh, h).edgeIndex = e /\ HalfEdgeAt(mesh, h).origin = v

\* the sum of the midpoints of the two sharp edges at vertex v
CreaseMidpointSum(mesh, v) ==
  LET e1 == CHOOSE e \in SharpEdgesAt(mesh, v) : TRUE
      e2 == CHOOSE e \in SharpEdgesAt(mesh, v) : e # e1
  IN  VAdd(MidpointOf(mesh, OutgoingOn(mesh, v, e1)),
           MidpointOf(mesh, OutgoingOn(mesh, v, e2)))

IsCreaseVertex(mesh, v) ==
  ~OnBoundary(mesh, v) /\ Cardinality(SharpEdgesAt(mesh, v)) = 2

State ==
  [meshes |-> meshes, subdivisionLevel |-> subdivisionLevel,
   SubdivSteps |-> SubdivSteps, EdgeSharpness |-> EdgeSharpness,
   showLimitPosition |-> showLimitPosition,
   g_showLimitPosition |-> g_showLimitPosition,
   g_prevShowLimitPosition |-> g_prevShowLimitPosition,
   currentMesh |-> currentMesh, selectedEdge |-> selectedEdge,
   selectedVertex |-> selectedVertex, modelLoaded |-> modelLoaded,
   fault |-> fault, pristine |-> pristine]

Becomes(st) ==
  /\ meshes' = st.meshes
  /\ subdivisionLevel' = st.subdivisionLevel
  /\ SubdivSteps' = st.SubdivSteps
  /\ EdgeSharpness' = st.EdgeSharpness
  /\ showLimitPosition' = st.showLimitPosition
  /\ g_showLimitPosition' = st.g_showLimitPosition
  /\ g_prevShowLimitPosition' = st.g_prevShowLimitPosition
  /\ currentMesh' = st.currentMesh
  /\ selectedEdge' = st.selectedEdge
  /\ selectedVertex' = st.selectedVertex
  /\ modelLoaded' = st.modelLoaded
  /\ fault' = st.fault
  /\ pristine' = st.pristine

\* the value of a set of one element: x \in {e} names the value of e, so
\* that a handler works on the state the handler before it left
Only(S) == CHOOSE x \in S : TRUE

Undefined(st, what) == IF st.fault = "none" THEN [st EXCEPT !.fault = what] ELSE st

\* a pointer into a cache that was cleared, and a pointer to a mesh of a
\* cache that was cleared or moved
Stale(ptr) == IF ptr.mesh >= 0 THEN DanglingPointer ELSE ptr

StaleMesh(k) == IF k >= 0 THEN Dangling ELSE k

IsMeshPointer(st, k) == k \in 0..(Len(st.meshes) - 1)

\* MainView::updateBuffers on the mesh at position k of the cache
updateBuffers(st, k) ==
  IF st.fault # "none" THEN st
  ELSE IF ~IsMeshPointer(st, k) THEN Undefined(st, "updateBuffers: no such mesh")
  ELSE [st EXCEPT
          !.g_showLimitPosition = st.showLimitPosition,
          !.meshes[k + 1] = extractAttributes(@, st.showLimitPosition,
                                              st.g_prevShowLimitPosition),
          !.g_prevShowLimitPosition = st.showLimitPosition,
          !.currentMesh = k]

\* QVector::resize of the cache
resizeMeshes(st, size) ==
  IF size <= Len(st.meshes)
  THEN [st EXCEPT !.meshes = SubSeq(@, 1, size),
                  !.pristine = SubSeq(@, 1, size)]
  ELSE [st EXCEPT
          !.meshes = @ \o [i \in 1..(size - Len(st.meshes)) |-> EmptyMesh],
          !.pristine = @ \o [i \in 1..(size - Len(st.meshes)) |-> <<>>],
          !.currentMesh = StaleMesh(@)]

\* MainView::updateSharpness
updateSharpness(st, sharpness) ==
  IF st.fault # "none" \/ st.selectedEdge = NullPointer THEN st
  ELSE IF ~IsMeshPointer(st, st.selectedEdge.mesh)
       THEN Undefined(st, "updateSharpness: selectedEdge is not a half-edge")
       ELSE Only({IF st.currentMesh # Null
                  THEN updateBuffers(written, st.currentMesh)
                  ELSE written :
                    written \in
                      {[st EXCEPT
                          !.meshes[st.selectedEdge.mesh + 1] =
                             setSelectedSharpness(@, st.selectedEdge.index,
                                                  sharpness)]}})

\* MainWindow::on_EdgeSharpness_valueChanged
\* on_EdgeSharpness_valueChanged that keeps the whole cache
on_EdgeSharpness_valueChangedKeepCache(st, sharpness) ==
  updateSharpness(st, sharpness)

on_EdgeSharpness_valueChanged(st, sharpness) ==
  Only({IF updated.fault # "none" THEN updated
        ELSE resizeMeshes(updated, updated.subdivisionLevel + 1) :
          updated \in {updateSharpness(st, sharpness)}})

\* QDoubleSpinBox::setValue on EdgeSharpness: the slot runs when the value
\* changes and the signals of the box are not blocked
setEdgeSharpnessValue(st, value, blocked) ==
  IF st.fault # "none" \/ st.EdgeSharpness = value THEN st
  ELSE IF blocked THEN [st EXCEPT !.EdgeSharpness = value]
  ELSE Only({on_EdgeSharpness_valueChanged(set, value) :
               set \in {[st EXCEPT !.EdgeSharpness = value]}})

\* MainWindow::onEdgeSelected
onEdgeSelected(st, sharpness, blocked) ==
  IF sharpness = 0 - 1 THEN setEdgeSharpnessValue(st, 0 - 1, blocked)
  ELSE IF sharpness >= 0 THEN setEdgeSharpnessValue(st, sharpness, blocked)
  ELSE setEdgeSharpnessValue(st, 0, blocked)

\* MainView::clearEdgeSelection
clearEdgeSelection(st, blocked) ==
  IF st.fault # "none" THEN st
  ELSE Only({IF told.currentMesh # Null
             THEN updateBuffers(told, told.currentMesh)
             ELSE told :
               told \in {onEdgeSelected([st EXCEPT !.selectedEdge = NullPointer],
                                        0 - 2, blocked)}})

\* MainView::clearVertexSelection
clearVertexSelection(st) ==
  IF st.fault # "none" THEN st
  ELSE IF st.currentMesh # Null
       THEN updateBuffers([st EXCEPT !.selectedVertex = NullPointer],
                          st.currentMesh)
       ELSE [st EXCEPT !.selectedVertex = NullPointer]

\* the loop of on_SubdivSteps_valueChanged
RECURSIVE subdivideUpTo(_, _)
subdivideUpTo(st, value) ==
  IF st.fault # "none" \/ Len(st.meshes) - 1 >= value THEN st
  ELSE IF Len(st.meshes) = 0
       THEN Undefined(st, "on_SubdivSteps_valueChanged: meshes[-1]")
       ELSE Only({subdivideUpTo(grown, value) :
                    grown \in
                      {[st EXCEPT !.meshes = Append(@, new),
                                  !.pristine = Append(@, CoordsOf(new)),
                                  !.currentMesh = StaleMesh(@)] :
                         new \in {subdivide(st.meshes[Len(st.meshes)])}}})

\* MainWindow::on_SubdivSteps_valueChanged
on_SubdivSteps_valueChanged(st, value) ==
  Only({updateBuffers(grown, value) :
          grown \in
            {subdivideUpTo(cleared, value) :
               cleared \in
                 {clearVertexSelection(noEdge) :
                    noEdge \in
                      {clearEdgeSelection(
                         [st EXCEPT !.subdivisionLevel = value], TRUE)}}}})

\* QSpinBox::setValue on SubdivSteps
setSubdivStepsValue(st, value) ==
  IF st.SubdivSteps = value THEN st
  ELSE Only({on_SubdivSteps_valueChanged(set, value) :
               set \in {[st EXCEPT !.SubdivSteps = value]}})

\* MainWindow::on_LimitPositionCheckBox_toggled
on_LimitPositionCheckBox_toggled(st, checked) ==
  updateBuffers([st EXCEPT !.showLimitPosition = checked], st.SubdivSteps)

\* the crease set-up importOBJ makes for a file named CreaseSquare
setupCreaseSquare(mesh) ==
  LET a == setCreaseEdge(mesh, 1, 2, 0 - 1)
      b == setCreaseEdge(a, 2, 3, 0 - 1)
      c == setCreaseEdge(b, 3, 0, 0 - 1)
  IN  setCreaseEdge(c, 0, 1, 0 - 1)

\* the files importOBJ is given: one that does not load, and models whose
\* name does or does not ask for a crease set-up
ImportFiles == {"missing", "CreaseSquare", "Tetrahedron"}

loadedSuccessfully(fileName) == fileName # "missing"

constructedMesh(fileName) ==
  CASE fileName = "CreaseSquare" -> setupCreaseSquare(QuadMesh)
    [] fileName = "Tetrahedron" -> TetraMesh

\* MainWindow::importOBJ
importOBJ(st, fileName) ==
  Only({setSubdivStepsValue(loaded, 0) :
          loaded \in
            {IF loadedSuccessfully(fileName)
             THEN Only({[shown EXCEPT !.modelLoaded = TRUE] :
                          shown \in
                            {updateBuffers(
                               [cleared EXCEPT
                                  !.meshes = <<mesh>>,
                                  !.pristine = <<CoordsOf(mesh)>>], 0) :
                               mesh \in {constructedMesh(fileName)}}})
             ELSE [cleared EXCEPT !.modelLoaded = FALSE] :
               cleared \in
                 {[st EXCEPT !.meshes = <<>>, !.pristine = <<>>,
                             !.currentMesh = StaleMesh(@),
                             !.selectedEdge = Stale(@),
                             !.selectedVertex = Stale(@)]}}})

\* pickEdgeAtScreenPosition looks at one half-edge of every vertex pair,
\* the first in index order
isPickable(mesh, h) ==
  /\ h \in HalfEdgesOf(mesh)
  /\ \A g \in 0..(h - 1) :
       {HalfEdgeAt(mesh, g).origin, Dest(mesh, HalfEdgeAt(mesh, g))}
         # {HalfEdgeAt(mesh, h).origin, Dest(mesh, HalfEdgeAt(mesh, h))}

\* MainView::mousePressEvent asking for an edge; h is the half-edge
\* pickEdgeAtScreenPosition returns, Null when it returns none
mousePressEdge(st, h) ==
  IF st.currentMesh = Null \/ ~st.modelLoaded THEN st
  ELSE IF ~IsMeshPointer(st, st.currentMesh)
       THEN Undefined(st, "pickEdgeAtScreenPosition: currentMesh is not a mesh")
       ELSE IF h = Null
            THEN clearEdgeSelection([st EXCEPT !.selectedEdge = NullPointer], FALSE)
            ELSE Only({IF shown.fault # "none" THEN shown
                       ELSE updateBuffers(shown, shown.currentMesh) :
                         shown \in
                           {clearVertexSelection(told) :
                              told \in
                                {onEdgeSelected(
                                   [st EXCEPT
                                      !.selectedEdge = Pointer(st.currentMesh, h)],
                                   HalfEdgeAt(st.meshes[st.currentMesh + 1],
                                              h).sharpness,
                                   FALSE)}}})

\* MainView::mousePressEvent asking for a vertex; v is the vertex
\* pickVertexAtScreenPosition returns, Null when it returns none
mousePressVertex(st, v) ==
  IF st.currentMesh = Null \/ ~st.modelLoaded THEN st
  ELSE IF ~IsMeshPointer(st, st.currentMesh)
       THEN Undefined(st, "pickVertexAtScreenPosition: currentMesh is not a mesh")
       ELSE IF v = Null
            THEN clearVertexSelection(st)
            ELSE Only({IF shown.fault # "none" THEN shown
                       ELSE updateBuffers(shown, shown.currentMesh) :
                         shown \in
                           {clearEdgeSelection(
                              [st EXCEPT
                                 !.selectedVertex = Pointer(st.currentMesh, v)],
                              FALSE)}})

(***************************************************************************)
(* The window.  Every action is one event handled to its end.  fault       *)
(* records the first step with undefined behaviour; nothing is said about  *)
(* the program after it.  The widgets of the mesh group are enabled only   *)
(* while a model is loaded (importOBJ, MeshGroupBox->setEnabled).          *)
(***************************************************************************)
MaxLevel == 1

MaxToggles == 4

MaxImports == 2

MaxSharpnessChanges == 1

MaxPickVertex == 0

\* half-edges of the mesh at level `value' - 1, the finest one subdivided
\* when the level is set to value
halfEdgesSubdivided(value) ==
  IF Len(meshes) = 0 \/ value <= 0 THEN 0
  ELSE numHalfEdges(meshes[1]) * 4 ^ (value - 1)

\* settings.selectedEdge and settings.selectedVertex have no initialiser:
\* they hold null or anything else
Init ==
  /\ meshes = <<>>
  /\ history = {}
  /\ edits = 0
  /\ selectedEdge \in {NullPointer, UninitPointer}
  /\ selectedVertex \in {NullPointer, UninitPointer}
  /\ InitUi

Handled(st) ==
  /\ Becomes(st)
  /\ UNCHANGED history

\* on_LoadOBJ_pressed, on_MeshPresetComboBox_currentTextChanged
ImportOBJ ==
  \E fileName \in ImportFiles :
    /\ fault = "none"
    /\ imports < MaxImports
    /\ \E st \in {importOBJ(State, fileName)} : Handled(st)
    /\ imports' = imports + 1
    /\ preToggle' = <<>>
    /\ UNCHANGED <<edits, toggles>>

\* the user sets the subdivision level
SubdivStepsChanged ==
  \E value \in 0..MaxLevel :
    /\ fault = "none" /\ modelLoaded
    /\ value # SubdivSteps
    /\ halfEdgesSubdivided(value) <= MaxControlHalfEdges
    /\ \E st \in {setSubdivStepsValue(State, value)} : Handled(st)
    /\ preToggle' = <<>>
    /\ UNCHANGED <<edits, toggles, imports>>

\* the user ticks or clears the limit-position box; preToggle keeps the
\* coordinates the displayed mesh had when the box was ticked
LimitPositionToggled ==
  /\ fault = "none" /\ modelLoaded
  /\ toggles < MaxToggles
  /\ toggles' = toggles + 1
  /\ \E st \in {on_LimitPositionCheckBox_toggled(State, ~showLimitPosition)} :
       Handled(st)
  /\ preToggle' = IF ~showLimitPosition /\ IsMeshPointer(State, SubdivSteps)
                  THEN CoordsOf(meshes[SubdivSteps + 1])
                  ELSE <<>>
  /\ UNCHANGED <<edits, imports>>

\* the user sets the sharpness box
EdgeSharpnessChanged ==
  \E value \in SharpValues :
    /\ fault = "none" /\ modelLoaded
    /\ value # EdgeSharpness
    /\ edits < MaxSharpnessChanges
    /\ \E st \in {setEdgeSharpnessValue(State, value, FALSE)} : Handled(st)
    /\ edits' = edits + 1
    /\ preToggle' = <<>>
    /\ UNCHANGED <<toggles, imports>>

\* a click that asks for an edge
MousePressEdge ==
  /\ fault = "none" /\ currentMesh # Null /\ modelLoaded
  /\ \E h \in {Null} \cup SelectableHalfEdges :
       /\ IsMeshPointer(State, currentMesh) /\ h # Null
            => isPickable(meshes[currentMesh + 1], h)
       /\ \E st \in {mousePressEdge(State, h)} : Handled(st)
  /\ preToggle' = <<>>
  /\ UNCHANGED <<edits, toggles, imports>>

\* a click that asks for a vertex
MousePressVertex ==
  /\ fault = "none" /\ currentMesh # Null /\ modelLoaded
  /\ \E v \in {Null} \cup 0..MaxPickVertex :
       \E st \in {mousePressVertex(State, v)} : Handled(st)
  /\ preToggle' = <<>>
  /\ UNCHANGED <<edits, toggles, imports>>

Next ==
  \/ ImportOBJ
  \/ SubdivStepsChanged
  \/ LimitPositionToggled
  \/ EdgeSharpnessChanged
  \/ MousePressEdge
  \/ MousePressVertex

Spec == Init /\ [][Next]_vars

(***************************************************************************)
(* Claims about the limit-position display, read on Spec.                  *)
(***************************************************************************)
\* C9: when the limit-position box is ticked and, with no other event in
\* between, cleared again on the same displayed mesh, every vertex of that
\* mesh has the coordinates it had before the box was ticked, and the
\* backup of the mesh is empty.
C9_LimitRoundTripRestores ==
  [][(/\ showLimitPosition /\ ~showLimitPosition'
      /\ preToggle # <<>>
      /\ fault' = "none")
       => /\ CoordsOf(meshes'[SubdivSteps' + 1]) = preToggle
          /\ meshes'[SubdivSteps' + 1].originalCoords = <<>>]_vars

\* C10: whenever the limit-position display is off after a display update,
\* every mesh of the per-level cache has the coordinates it entered the
\* cache with.
C10_CacheUnprojectedWhenOff ==
  (fault = "none" /\ ~showLimitPosition)
    => \A k \in 1..Len(meshes) : CoordsOf(meshes[k]) = pristine[k]

\* the mesh with these coordinates and no backup
WithCoords(mesh, coords) ==
  [mesh EXCEPT
     !.vertices = [i \in 1..numVerts(mesh) |->
                     [mesh.vertices[i] EXCEPT !.coords = coords[i]]] \o <<>>,
     !.originalCoords = <<>>]

\* C11: while no sharpness has been edited, the mesh of every level above 0
\* entered the cache as subdivide of the mesh one level below taken with
\* the coordinates that mesh entered the cache with, so level k is subdivide
\* applied k times to the mesh as imported and never to projected
\* coordinates.
C11_LevelsFromOriginalCoords ==
  (fault = "none" /\ edits = 0) =>
    \A k \in 2..Len(meshes) :
      pristine[k] = CoordsOf(subdivide(WithCoords(meshes[k - 1], pristine[k - 1])))

(***************************************************************************)
(* Claims about setCreaseEdge, read on SpecSub.                            *)
(***************************************************************************)
\* the half-edges setCreaseEdge is to write: those that join the two
\* vertices and their twins
HalfEdgesOfCrease(mesh, a, b) ==
  HalfEdgesJoining(mesh, a, b)
    \cup ({HalfEdgeAt(mesh, h).twin : h \in HalfEdgesJoining(mesh, a, b)} \ {Null})

\* after differs from before in the sharpness of these half-edges, which is
\* s, and in nothing else
OnlySharpnessWritten(before, after, written, s) ==
  /\ numHalfEdges(after) = numHalfEdges(before)
  /\ \A h \in HalfEdgesOf(before) :
       HalfEdgeAt(after, h) =
         IF h \in written
         THEN [HalfEdgeAt(before, h) EXCEPT !.sharpness = s]
         ELSE HalfEdgeAt(before, h)
  /\ after.vertices = before.vertices
  /\ after.faces = before.faces
  /\ after.edgeCount = before.edgeCount
  /\ after.originalCoords = before.originalCoords

\* a step that is setCreaseEdge(pair[1], pair[2], s) on the starting mesh
IsSetCreaseEdge(pair, s) ==
  /\ Len(meshes) = 1
  /\ edits' = edits + 1
  /\ meshes' = <<setCreaseEdge(meshes[1], pair[1], pair[2], s)>>

C13_SetCreaseEdgeMissIsNoOp ==
  [][\A pair \in CreasePairs, s \in SharpValues :
       (/\ IsSetCreaseEdge(pair, s)
        /\ HalfEdgesJoining(meshes[1], pair[1], pair[2]) = {})
         => (meshes' = meshes /\ fault' = "none")]_vars

\* a setCreaseEdge call has found no half-edge to write, on a mesh where
\* the pairs it is called with include twice the same vertex or an index
\* beyond the vertices
C13_Witness ==
  /\ "setCreaseEdgeNoEdge" \in history
  /\ Len(meshes) = 1
  /\ \E pair \in CreasePairs :
        /\ HalfEdgesJoining(meshes[1], pair[1], pair[2]) = {}
        /\ pair[1] = pair[2] \/ pair[2] >= numVerts(meshes[1])


(***************************************************************************)
(* Claims about the connectivity subdivide builds, read on SpecSub.  The   *)
(* meshes of the cache above the first are the meshes subdivide returned.  *)
(***************************************************************************)
\* C14: in every mesh subdivide returns for a well-formed mesh, each
\* half-edge is the prev of its next and the next of its prev, and is the
\* twin of its twin when it has one.
C14_LinksAreMutual ==
  \A k \in 2..Len(meshes) :
    \A h \in HalfEdgesOf(meshes[k]) :
      LET he == HalfEdgeAt(meshes[k], h)
      IN  /\ he.next \in HalfEdgesOf(meshes[k])
          /\ he.prev \in HalfEdgesOf(meshes[k])
          /\ HalfEdgeAt(meshes[k], he.next).prev = h
          /\ HalfEdgeAt(meshes[k], he.prev).next = h
          /\ he.twin # Null =>
               /\ he.twin \in HalfEdgesOf(meshes[k])
               /\ HalfEdgeAt(meshes[k], he.twin).twin = h

\* subdivide has returned a mesh with half-edges that have a twin and
\* half-edges on the boundary, and that mesh was subdivided again
C14_Witness ==
  /\ Len(meshes) >= 3
  /\ \E h, g \in HalfEdgesOf(meshes[2]) :
        /\ HalfEdgeAt(meshes[2], h).twin # Null
        /\ HalfEdgeAt(meshes[2], g).twin = Null


\* the half-edge reached from h by n steps along next
RECURSIVE NextWalk(_, _, _)
NextWalk(mesh, h, n) ==
  IF n = 0 THEN h ELSE NextWalk(mesh, HalfEdgeAt(mesh, h).next, n - 1)

\* C15: every face f of a mesh subdivide returns is a quad: its valence is
\* 4, its side is one of the half-edges 4f .. 4f+3, each of these four has
\* f as its face, and following next from the side comes back to the side
\* after exactly 4 steps and not before.
C15_FacesAreQuads ==
  \A k \in 2..Len(meshes) :
    \A f \in 0..(numFaces(meshes[k]) - 1) :
      LET face == FaceAt(meshes[k], f)
      IN  /\ face.index = f
          /\ face.valence = 4
          /\ face.side \in (4 * f)..(4 * f + 3)
          /\ \A h \in (4 * f)..(4 * f + 3) : HalfEdgeAt(meshes[k], h).face = f
          /\ NextWalk(meshes[k], face.side, 4) = face.side
          /\ \A n \in 1..3 : NextWalk(meshes[k], face.side, n) # face.side

\* subdivide has returned a mesh when it was given triangles and when it
\* was given quads
C15_Witness ==
  /\ Len(meshes) >= 2
  /\ numFaces(meshes[2]) > 0
  /\ \E f \in 0..(numFaces(meshes[1]) - 1) : FaceAt(meshes[1], f).valence = 3


\* the half-edge reached from h by n steps h := h.prev.twin round the
\* origin of h, Null once the boundary is met
RECURSIVE RingWalk(_, _, _)
RingWalk(mesh, h, n) ==
  IF n = 0 \/ h = Null THEN h
  ELSE RingWalk(mesh, HalfEdgeAt(mesh, HalfEdgeAt(mesh, h).prev).twin, n - 1)

\* the vertices at either end of a half-edge without twin
BoundaryVertices(mesh) ==
  UNION {{HalfEdgeAt(mesh, h).origin, Dest(mesh, HalfEdgeAt(mesh, h))} :
           h \in {g \in HalfEdgesOf(mesh) : HalfEdgeAt(mesh, g).twin = Null}}

\* C16: every vertex v of a mesh subdivide returns -- a kept vertex, a face
\* point or an edge point -- has an out half-edge, whose origin is v; when
\* v is interior, the walk h := h.prev.twin from out comes back to out after
\* exactly v.valence steps and not before.
C16_VertexRings ==
  \A k \in 2..Len(meshes) :
    \A v \in VerticesOf(meshes[k]) :
      LET vert == VertexAt(meshes[k], v)
      IN  /\ vert.out # Null
          /\ vert.out \in HalfEdgesOf(meshes[k])
          /\ HalfEdgeAt(meshes[k], vert.out).origin = v
          /\ v \notin BoundaryVertices(meshes[k]) =>
               /\ vert.valence > 0
               /\ RingWalk(meshes[k], vert.out, vert.valence) = vert.out
               /\ \A n \in 1..(vert.valence - 1) :
                    RingWalk(meshes[k], vert.out, n) # vert.out

\* subdivide has returned a closed mesh with vertices of valence 3 and of
\* valence 4
C16_Witness ==
  /\ Len(meshes) >= 2
  /\ IsClosed(meshes[2])
  /\ \E u \in VerticesOf(meshes[2]) : VertexAt(meshes[2], u).valence = 3
  /\ \E v \in VerticesOf(meshes[2]) : VertexAt(meshes[2], v).valence = 4


(***************************************************************************)
(* Claims about the positions subdivide computes, read on SpecSub.         *)
(***************************************************************************)
\* the sum of the positions of these vertices
RECURSIVE SumOfCoords(_, _)
SumOfCoords(mesh, vs) ==
  IF vs = {} THEN VZero
  ELSE LET v == CHOOSE u \in vs : TRUE
       IN  VAdd(VertexAt(mesh, v).coords, SumOfCoords(mesh, vs \ {v}))

\* the corners of face f: the origins of the half-edges that bound it
CornersOf(mesh, f) ==
  {HalfEdgeAt(mesh, h).origin :
     h \in {g \in HalfEdgesOf(mesh) : HalfEdgeAt(mesh, g).face = f}}

\* the mean of the positions of the corners of face f
CentroidOf(mesh, f) ==
  VScale(SumOfCoords(mesh, CornersOf(mesh, f)), 1, Cardinality(CornersOf(mesh, f)))

\* the starting mesh is the single quad with every sharpness 0
IsSmoothSingleQuad(mesh) ==
  /\ numFaces(mesh) = 1
  /\ numVerts(mesh) = 4
  /\ numHalfEdges(mesh) = 4
  /\ \A h \in HalfEdgesOf(mesh) : HalfEdgeAt(mesh, h).sharpness = 0

\* C17: in a mesh subdivide returns, the vertex at index V + f.index is the
\* mean of the positions of the corners of face f of the input.  For a
\* single quad with every sharpness 0 the result is the classical one: 9
\* vertices and 4 quads, the face point at the centroid of the four corners
\* and the four edge points at the midpoints of the four edges.
C17_FacePointIsCentroid ==
  \A k \in 2..Len(meshes) :
    /\ \A f \in 0..(numFaces(meshes[k - 1]) - 1) :
         VertexAt(meshes[k], numVerts(meshes[k - 1]) + FaceAt(meshes[k - 1], f).index).coords
           = CentroidOf(meshes[k - 1], f)
    /\ (k = 2 /\ IsSmoothSingleQuad(meshes[1])) =>
         /\ numVerts(meshes[2]) = 9
         /\ numFaces(meshes[2]) = 4
         /\ \A f \in 0..3 : FaceAt(meshes[2], f).valence = 4
         /\ VertexAt(meshes[2], 4).coords
              = VScale(SumOfCoords(meshes[1], 0..3), 1, 4)
         /\ \A h \in 0..3 :
              VertexAt(meshes[2], 5 + HalfEdgeAt(meshes[1], h).edgeIndex).coords
                = MidpointOf(meshes[1], h)
         /\ {HalfEdgeAt(meshes[1], h).edgeIndex : h \in 0..3} = 0..3

\* subdivide has been applied to the single quad with every sharpness 0,
\* and its result, whose faces are quads, has been subdivided again
C17_Witness ==
  /\ Len(meshes) = 3
  /\ IsSmoothSingleQuad(meshes[1])
  /\ VertexAt(meshes[2], 4).coords = <<9, 5, 3, 4>>


(***************************************************************************)
(* SpecLimit: extractAttributes applied to one mesh with the limit flag    *)
(* switched on and off, as updateBuffers calls it.  The meshes are those   *)
(* of BaseMeshes and two whose vertex 0, an interior vertex, has 0 in its  *)
(* valence field; setCreaseEdge is applied in between, the projection      *)
(* taking no notice of sharpness.                                          *)
(***************************************************************************)
\* the mesh with n in the valence field of vertex v
withValence(mesh, v, n) == [mesh EXCEPT !.vertices[v + 1].valence = n]

LimitMeshes ==
  BaseMeshes \cup {withValence(TetraMesh, 0, 0), withValence(CubeMesh, 0, 0)}

InitLimit ==
  /\ \E base \in LimitMeshes, s \in {0, 0 - 1} :
        meshes = <<withUniformSharpness(base, s)>>
  /\ history = {}
  /\ edits = 0
  /\ selectedEdge = NullPointer
  /\ selectedVertex = NullPointer
  /\ InitUi

\* updateBuffers on the one mesh, after the check box was set to show
LimitExtractAttributes ==
  \E show \in BOOLEAN :
    /\ meshes' = <<extractAttributes(meshes[1], show, g_prevShowLimitPosition)>>
    /\ showLimitPosition' = show
    /\ g_showLimitPosition' = show
    /\ g_prevShowLimitPosition' = show
    /\ preToggle' = CoordsOf(meshes[1])
    /\ history' = history \cup {IF show THEN "limitOn" ELSE "limitOff"}
    /\ UNCHANGED <<subdivisionLevel, SubdivSteps, EdgeSharpness, currentMesh,
                   selectedEdge, selectedVertex, modelLoaded, fault, edits,
                   toggles, imports, pristine>>

NextLimit == LimitExtractAttributes \/ SubSetCreaseEdge

SpecLimit == InitLimit /\ [][NextLimit]_vars

\* the interior vertices whose valence field holds 0
DegenerateVertices(mesh) ==
  {v \in VerticesOf(mesh) :
     VertexAt(mesh, v).valence = 0 /\ v \notin BoundaryVertices(mesh)}

\* C18: limit projection of a mesh that has an interior vertex of valence 0
\* is a precondition violation: the call that would project ends in an
\* error and leaves every vertex position as it was, and no position
\* becomes NaN.
C18_DegenerateValenceIsAnError ==
  [][(/\ g_showLimitPosition' /\ ~g_prevShowLimitPosition
      /\ DegenerateVertices(meshes[1]) # {})
       => /\ fault' # "none"
          /\ CoordsOf(meshes'[1]) = CoordsOf(meshes[1])]_vars


\* the sharpness of a child that runs along an edge of sharpness s
DecayOf(s) == IF s > 0 THEN s - 1 ELSE IF s = 0 - 1 THEN 0 - 1 ELSE 0

\* C19: the sharpness of every half-edge subdivide returns is fixed by the
\* half-edge h of the input it came from: 4h gets the decay of h's
\* sharpness, 4h+3 the decay of the sharpness of h.prev, 4h+1 and 4h+2 get
\* 0, where the decay of s is s - 1 for s > 0, -1 for -1 and 0 otherwise;
\* no sharpness of the result is below -1.
C19_SharpnessFromParent ==
  [][Len(meshes') = Len(meshes) + 1 =>
       LET in  == LastMesh
           out == meshes'[Len(meshes')]
       IN  /\ \A h \in HalfEdgesOf(in) :
                /\ HalfEdgeAt(out, 4 * h).sharpness
                     = DecayOf(HalfEdgeAt(in, h).sharpness)
                /\ HalfEdgeAt(out, 4 * h + 3).sharpness
                     = DecayOf(HalfEdgeAt(in, HalfEdgeAt(in, h).prev).sharpness)
                /\ HalfEdgeAt(out, 4 * h + 1).sharpness = 0
                /\ HalfEdgeAt(out, 4 * h + 2).sharpness = 0
           /\ \A g \in HalfEdgesOf(out) : HalfEdgeAt(out, g).sharpness >= 0 - 1]_vars

\* subdivide has been applied to a mesh with a semi-sharp edge, an
\* infinitely sharp edge and a smooth edge
C19_Witness ==
  /\ Len(meshes) >= 2
  /\ \E a, b, c \in HalfEdgesOf(meshes[1]) :
        /\ HalfEdgeAt(meshes[1], a).sharpness = 1
        /\ HalfEdgeAt(meshes[1], b).sharpness = 0 - 1
        /\ HalfEdgeAt(meshes[1], c).sharpness = 0
        /\ HalfEdgeAt(meshes[2], 4 * a).sharpness = 0
        /\ HalfEdgeAt(meshes[2], 4 * b).sharpness = 0 - 1


\* C20: whenever the limit-position display is on after a display update,
\* the displayed mesh holds the limit positions of the coordinates it
\* entered the cache with, the projection applied once: after the box is
\* ticked, after the level is changed with the box ticked, and after the
\* box is cleared and ticked again on another level.
C20_DisplayedIsLimitWhenOn ==
  (fault = "none" /\ showLimitPosition /\ currentMesh >= 0
     /\ currentMesh < Len(meshes))
    => CoordsOf(meshes[currentMesh + 1])
         = CoordsOf(projectVerticesToCatmullClarkLimit(
                      WithCoords(meshes[currentMesh + 1], pristine[currentMesh + 1])))


(***************************************************************************)
(* SpecSharp: the operations of SpecSub on meshes whose half-edges start   *)
(* with a sharpness below -1, a value the int field can hold and that      *)
(* setCreaseEdge and updateSharpness store as they store any other.        *)
(***************************************************************************)
\* a sharpness that is neither 0, nor positive, nor -1
BelowInfinite == 0 - 2

InitSharp ==
  /\ \E base \in BaseMeshes :
        meshes = <<withUniformSharpness(base, BelowInfinite)>>
  /\ history = {}
  /\ edits = 0
  /\ selectedEdge = NullPointer
  /\ selectedVertex = NullPointer
  /\ InitUi

SpecSharp == InitSharp /\ [][NextSub]_vars

\* the edges at v whose sharpness is not 0
NonzeroEdgesAt(mesh, v) ==
  {HalfEdgeAt(mesh, h).edgeIndex :
     h \in {g \in HalfEdgesAt(mesh, v) : HalfEdgeAt(mesh, g).sharpness # 0}}

\* C21: subdivide treats an interior edge as sharp exactly when its
\* sharpness is not 0, whatever the integer, negative values other than -1
\* included: the edge point of such an edge is the midpoint of its ends and
\* the edge counts among the crease edges of its end vertices; an interior
\* edge of sharpness 0 gets the smooth edge point and is not counted.
C21_SharpIffNonzero ==
  [][Len(meshes') = Len(meshes) + 1 =>
       LET in  == LastMesh
           out == meshes'[Len(meshes')]
       IN  /\ \A h \in HalfEdgesOf(in) :
                HalfEdgeAt(in, h).twin # Null =>
                  VertexAt(out, numVerts(in) + numFaces(in)
                                  + HalfEdgeAt(in, h).edgeIndex).coords
                    = IF HalfEdgeAt(in, h).sharpness # 0
                      THEN MidpointOf(in, h)
                      ELSE SmoothEdgePointOf(in, h)
           /\ \A v \in VerticesOf(in) \ BoundaryVertices(in) :
                countCreaseEdges(in, VertexAt(in, v))
                  = Cardinality(NonzeroEdgesAt(in, v))]_vars


(***************************************************************************)
(* Claims about edge points, vertex points and the numbering subdivide     *)
(* gives, read on SpecSub.                                                 *)
(***************************************************************************)
\* the vertex subdivide stores for the edge of half-edge h of mesh in
EdgePointVertex(in, out, h) ==
  VertexAt(out, numVerts(in) + numFaces(in) + HalfEdgeAt(in, h).edgeIndex)

\* C22: for every undirected edge e of the input, subdivide makes one edge
\* point, at index V + F + e.edgeIndex, distinct edges at distinct indices.
\* It is the midpoint of the ends of e with valence 3 when e is on the
\* boundary, sharp or not; the midpoint with valence 4 when e is interior
\* and sharp; and otherwise the mean of the midpoint and of the mean of the
\* two face points next to e, with valence 4.
C22_OneEdgePointPerEdge ==
  [][Len(meshes') = Len(meshes) + 1 =>
       LET in  == LastMesh
           out == meshes'[Len(meshes')]
       IN  /\ {HalfEdgeAt(in, h).edgeIndex : h \in HalfEdgesOf(in)}
                = 0..(numEdges(in) - 1)
           /\ \A h, g \in HalfEdgesOf(in) :
                (HalfEdgeAt(in, h).edgeIndex = HalfEdgeAt(in, g).edgeIndex)
                  <=> (g = h \/ HalfEdgeAt(in, h).twin = g)
           /\ numVerts(out) = numVerts(in) + numFaces(in) + numEdges(in)
           /\ \A h \in HalfEdgesOf(in) :
                LET he == HalfEdgeAt(in, h)
                    pt == EdgePointVertex(in, out, h)
                IN  IF he.twin = Null
                    THEN pt.coords = MidpointOf(in, h) /\ pt.valence = 3
                    ELSE IF he.sharpness > 0 \/ he.sharpness = 0 - 1
                    THEN pt.coords = MidpointOf(in, h) /\ pt.valence = 4
                    ELSE pt.coords = SmoothEdgePointOf(in, h) /\ pt.valence = 4]_vars

\* subdivide has been applied to a mesh that has a sharp edge on the
\* boundary and a sharp interior edge, and again to its result, whose
\* interior edges off the crease are smooth
C22_Witness ==
  /\ Len(meshes) = 3
  /\ \E a, b \in HalfEdgesOf(meshes[1]) :
        /\ HalfEdgeAt(meshes[1], a).twin = Null
        /\ HalfEdgeAt(meshes[1], a).sharpness = 0 - 1
        /\ HalfEdgeAt(meshes[1], b).twin # Null
        /\ HalfEdgeAt(meshes[1], b).sharpness = 0 - 1
  /\ \E c \in HalfEdgesOf(meshes[2]) :
        /\ HalfEdgeAt(meshes[2], c).twin # Null
        /\ HalfEdgeAt(meshes[2], c).sharpness = 0
        /\ EdgePointVertex(meshes[2], meshes[3], c).coords
             # MidpointOf(meshes[2], c)


\* the half-edges that leave vertex v
OutgoingAt(mesh, v) ==
  {h \in HalfEdgesOf(mesh) : HalfEdgeAt(mesh, h).origin = v}

\* the sum of the midpoints of the edges of these half-edges
RECURSIVE SumOfMidpoints(_, _)
SumOfMidpoints(mesh, hs) ==
  IF hs = {} THEN VZero
  ELSE LET h == CHOOSE g \in hs : TRUE
       IN  VAdd(MidpointOf(mesh, h), SumOfMidpoints(mesh, hs \ {h}))

\* the sum of the face points of the faces of these half-edges
RECURSIVE SumOfFacePoints(_, _)
SumOfFacePoints(mesh, hs) ==
  IF hs = {} THEN VZero
  ELSE LET h == CHOOSE g \in hs : TRUE
       IN  VAdd(CentroidOf(mesh, HalfEdgeAt(mesh, h).face),
                SumOfFacePoints(mesh, hs \ {h}))

\* (Q + 2R + (n - 3) S) / n over all n faces and edges at interior vertex v
SmoothVertexPointOf(mesh, v) ==
  LET hs == OutgoingAt(mesh, v)
      n  == Cardinality(hs)
      Q  == VScale(SumOfFacePoints(mesh, hs), 1, n)
      R  == VScale(SumOfMidpoints(mesh, hs), 1, n)
      S  == VertexAt(mesh, v).coords
  IN  VScale(VAdd(VAdd(Q, VScale(R, 2, 1)), VScale(S, n - 3, 1)), 1, n)

\* the mesh with sharpness 0 on every half-edge at v
SmoothedAt(mesh, v) ==
  [mesh EXCEPT
     !.halfEdges = [i \in 1..numHalfEdges(mesh) |->
                      IF (i - 1) \in HalfEdgesAt(mesh, v)
                      THEN [mesh.halfEdges[i] EXCEPT !.sharpness = 0]
                      ELSE mesh.halfEdges[i]] \o <<>>]

\* C23: an interior vertex with at most one sharp edge gets the position
\* (Q + 2R + (n - 3) S) / n, Q and R taken over all n faces and edges at
\* the vertex; the position is the one it gets when the sharpness of its
\* only sharp edge is set to 0.
C23_OneSharpEdgeIsSmooth ==
  [][Len(meshes') = Len(meshes) + 1 =>
       LET in  == LastMesh
           out == meshes'[Len(meshes')]
       IN  \A v \in VerticesOf(in) \ BoundaryVertices(in) :
             Cardinality(SharpEdgesAt(in, v)) <= 1 =>
               /\ VertexAt(out, v).coords = SmoothVertexPointOf(in, v)
               /\ VertexAt(out, v).coords = vertexPointCoords(SmoothedAt(in, v), v)]_vars

\* subdivide has moved an interior vertex that has exactly one sharp edge
C23_Witness ==
  /\ Len(meshes) >= 2
  /\ NoEditAfterSubdivide
  /\ \E v \in VerticesOf(meshes[1]) \ BoundaryVertices(meshes[1]) :
        /\ Cardinality(SharpEdgesAt(meshes[1], v)) = 1
        /\ VertexAt(meshes[2], v).coords # VertexAt(meshes[1], v).coords
        /\ VertexAt(meshes[2], v).coords = SmoothVertexPointOf(meshes[1], v)


\* C24: in a mesh subdivide returns, every half-edge ends at a vertex, the
\* origin of its next, other than its own origin; a half-edge with a twin t
\* runs opposite to it: t starts where the half-edge ends and ends where it
\* starts; and 4h, respectively 4h+3, has no twin exactly when h,
\* respectively h.prev, is a boundary edge of the input.
C24_TwinsRunOpposite ==
  [][Len(meshes') = Len(meshes) + 1 =>
       LET in  == LastMesh
           out == meshes'[Len(meshes')]
       IN  /\ \A g \in HalfEdgesOf(out) :
                LET he == HalfEdgeAt(out, g)
                IN  /\ he.origin \in VerticesOf(out)
                    /\ Dest(out, he) \in VerticesOf(out)
                    /\ Dest(out, he) # he.origin
                    /\ he.twin # Null =>
                         /\ HalfEdgeAt(out, he.twin).origin = Dest(out, he)
                         /\ Dest(out, HalfEdgeAt(out, he.twin)) = he.origin
           /\ \A h \in HalfEdgesOf(in) :
                /\ (HalfEdgeAt(out, 4 * h).twin = Null)
                     <=> (HalfEdgeAt(in, h).twin = Null)
                /\ (HalfEdgeAt(out, 4 * h + 3).twin = Null)
                     <=> (HalfEdgeAt(in, HalfEdgeAt(in, h).prev).twin = Null)
                /\ HalfEdgeAt(out, 4 * h + 1).twin # Null
                /\ HalfEdgeAt(out, 4 * h + 2).twin # Null]_vars

\* subdivide has returned a mesh for an input with boundary edges and
\* interior edges, and that mesh was subdivided in its turn
C24_Witness ==
  /\ Len(meshes) = 3
  /\ \E a, b \in HalfEdgesOf(meshes[1]) :
        /\ HalfEdgeAt(meshes[1], a).twin = Null
        /\ HalfEdgeAt(meshes[1], b).twin # Null
        /\ HalfEdgeAt(meshes[2], 4 * a).twin = Null
        /\ HalfEdgeAt(meshes[2], 4 * b).twin # Null


\* the half-edges that stand for their undirected edge: those without twin
\* and the first of each pair of twins
EdgeRepresentatives(mesh) ==
  {g \in HalfEdgesOf(mesh) :
     HalfEdgeAt(mesh, g).twin = Null \/ g < HalfEdgeAt(mesh, g).twin}

\* C25: in a mesh subdivide returns for an input whose twins share their
\* edgeIndex and whose edge indices are 0..E-1, two different half-edges
\* have the same edgeIndex exactly when they are twins, the edge indices in
\* use are exactly 0..(2E + H - 1), and numEdges is the number of
\* undirected edges of the mesh.
C25_EdgeIndexNamesTheEdge ==
  [][Len(meshes') = Len(meshes) + 1 =>
       LET in  == LastMesh
           out == meshes'[Len(meshes')]
           reps == EdgeRepresentatives(out)
       IN  /\ \A g \in HalfEdgesOf(out) :
                HalfEdgeAt(out, g).twin # Null =>
                  HalfEdgeAt(out, HalfEdgeAt(out, g).twin).edgeIndex
                    = HalfEdgeAt(out, g).edgeIndex
           \* no two undirected edges share an index
           /\ Cardinality({HalfEdgeAt(out, g).edgeIndex : g \in reps})
                = Cardinality(reps)
           /\ {HalfEdgeAt(out, g).edgeIndex : g \in HalfEdgesOf(out)}
                = 0..(2 * numEdges(in) + numHalfEdges(in) - 1)
           /\ numEdges(out) = Cardinality(reps)]_vars

\* subdivide has numbered the edges of a mesh with boundary, which has
\* more than half as many edges as half-edges, and that mesh was subdivided
\* in its turn
C25_Witness ==
  /\ Len(meshes) = 3
  /\ ~IsClosed(meshes[2])
  /\ 2 * numEdges(meshes[2]) > numHalfEdges(meshes[2])
  /\ numEdges(meshes[3]) = 2 * numEdges(meshes[2]) + numHalfEdges(meshes[2])


\* C26: in a mesh subdivide returns, the valence stored in every vertex is
\* the number of undirected edges that meet at it: the valence of the face
\* for a face point, 4 for the edge point of an interior edge, 3 for the
\* edge point of a boundary edge, and the valence it had for a kept vertex.
C26_ValenceCountsEdges ==
  [][Len(meshes') = Len(meshes) + 1 =>
       LET in  == LastMesh
           out == meshes'[Len(meshes')]
       IN  /\ \A v \in VerticesOf(out) :
                VertexAt(out, v).valence = IncidentEdges(out, v)
           /\ \A v \in VerticesOf(in) :
                VertexAt(out, v).valence = VertexAt(in, v).valence
           /\ \A f \in 0..(numFaces(in) - 1) :
                VertexAt(out, numVerts(in) + f).valence = FaceAt(in, f).valence
           /\ \A h \in HalfEdgesOf(in) :
                EdgePointVertex(in, out, h).valence
                  = IF HalfEdgeAt(in, h).twin = Null THEN 3 ELSE 4]_vars

\* subdivide has returned a mesh with a face point of valence 3, or with
\* an edge point of valence 3 and a kept vertex of valence 2
C26_Witness ==
  /\ Len(meshes) >= 2
  /\ \/ /\ FaceAt(meshes[1], 0).valence = 3
        /\ VertexAt(meshes[2], numVerts(meshes[1])).valence = 3
     \/ /\ HalfEdgeAt(meshes[1], 0).twin = Null
        /\ EdgePointVertex(meshes[1], meshes[2], 0).valence = 3
        /\ VertexAt(meshes[2], 0).valence = 2


(***************************************************************************)
(* Claims about the cache, the backup and the selection, read on Spec.     *)
(***************************************************************************)
\* C27: for every mesh of the cache, the coordinate backup is non-empty
\* exactly while the coordinates of the mesh are projected, and then it
\* holds the coordinates the mesh had before its first projection; a
\* restore gives those coordinates back.
C27_BackupHoldsOriginals ==
  fault = "none" =>
    \A k \in 1..Len(meshes) :
      /\ meshes[k].originalCoords # <<>> =>
           /\ meshes[k].originalCoords = pristine[k]
           /\ CoordsOf(meshes[k]) # pristine[k]
      /\ meshes[k].originalCoords = <<>> => CoordsOf(meshes[k]) = pristine[k]
      /\ CoordsOf(restoreOriginalCoords(meshes[k])) = pristine[k]

\* the level-0 mesh has been projected, left projected while the box was
\* cleared on another level, and projected once more: its coordinates are
\* not those of one projection, and its backup is there
C27_Witness ==
  /\ fault = "none"
  /\ Len(meshes) >= 1
  /\ showLimitPosition
  /\ SubdivSteps = 0
  /\ toggles >= 3
  /\ meshes[1].originalCoords # <<>>
  /\ CoordsOf(meshes[1])
       # CoordsOf(projectVerticesToCatmullClarkLimit(WithCoords(meshes[1], pristine[1])))


\* the sharpness of every half-edge, in index order
SharpnessOf(mesh) ==
  [i \in 1..numHalfEdges(mesh) |-> mesh.halfEdges[i].sharpness] \o <<>>

\* the sharpness subdivide gives the half-edges it makes of this mesh
SharpnessOfChildren(mesh) ==
  [i \in 1..(4 * numHalfEdges(mesh)) |->
     LET he == HalfEdgeAt(mesh, (i - 1) \div 4)
     IN  CASE (i - 1) % 4 = 0 -> DecayOf(he.sharpness)
           [] (i - 1) % 4 = 3 -> DecayOf(HalfEdgeAt(mesh, he.prev).sharpness)
           [] OTHER -> 0] \o <<>>

\* a step in which on_EdgeSharpness_valueChanged ran: the value of the
\* sharpness box changed while the level and the model stayed
SharpnessEdited ==
  /\ EdgeSharpness' # EdgeSharpness
  /\ SubdivSteps' = SubdivSteps
  /\ imports' = imports
  /\ fault' = "none"

\* C28: after a sharpness edit made while level L is displayed the cache
\* holds no mesh of a level above L, and every mesh that enters the cache
\* at a level above another carries the sharpness subdivide derives from
\* the mesh below it as the cache holds it then, never an older one.
C28_EditDropsFinerLevels ==
  [][/\ SharpnessEdited => Len(meshes') = SubdivSteps' + 1
     /\ (fault' = "none" /\ Len(meshes) >= 1 /\ imports' = imports) =>
          \A k \in (Len(meshes) + 1)..Len(meshes') :
            SharpnessOf(meshes'[k]) = SharpnessOfChildren(meshes'[k - 1])]_vars

\* the tetrahedron, imported smooth, has had an edge made infinitely sharp
\* at level 0, and level 1, shown afterwards, has that crease
C28_Witness ==
  /\ fault = "none"
  /\ edits = 1
  /\ Len(meshes) = 2
  /\ SubdivSteps = 1
  /\ numFaces(meshes[1]) = 4
  /\ numVerts(meshes[1]) = 4
  /\ \E h \in HalfEdgesOf(meshes[1]) : HalfEdgeAt(meshes[1], h).sharpness = 0 - 1
  /\ \E g \in HalfEdgesOf(meshes[2]) : HalfEdgeAt(meshes[2], g).sharpness = 0 - 1


\* ---------------------------------------------------------------------
\* Selection pointers of the view (settings.h:37-38)

\* A selection pointer is usable when it is null or names an element of
\* the mesh on display.
SelectionIsOfDisplayed(ptr, count) ==
  \/ ptr = NullPointer
  \/ /\ currentMesh >= 0 /\ currentMesh < Len(meshes)
     /\ ptr.mesh = currentMesh
     /\ ptr.index \in 0..(count - 1)

\* updateSharpness has not written through a selectedEdge that is
\* uninitialised or names a mesh that is gone.
NoWriteThroughStaleEdge ==
  fault # "updateSharpness: selectedEdge is not a half-edge"

\* C29: in every state reachable from start-up selectedEdge and
\* selectedVertex are each null or an element of the mesh on display, and
\* no sharpness edit writes through a pointer that is uninitialised or
\* names a mesh that is gone.
C29_SelectionIsNullOrDisplayed ==
  /\ NoWriteThroughStaleEdge
  /\ fault = "none" =>
       /\ SelectionIsOfDisplayed(selectedEdge,
            IF currentMesh >= 0 /\ currentMesh < Len(meshes)
            THEN numHalfEdges(meshes[currentMesh + 1]) ELSE 0)
       /\ SelectionIsOfDisplayed(selectedVertex,
            IF currentMesh >= 0 /\ currentMesh < Len(meshes)
            THEN numVerts(meshes[currentMesh + 1]) ELSE 0)


\* ---------------------------------------------------------------------
\* Accesses to the mesh cache (mainwindow.cpp:46-123, mainview.cpp:109-150)

\* the faults of a handler that indexes meshes out of range or dereferences
\* a currentMesh that names no cached mesh
CacheFaults ==
  {"updateBuffers: no such mesh",
   "on_SubdivSteps_valueChanged: meshes[-1]",
   "pickEdgeAtScreenPosition: currentMesh is not a mesh",
   "pickVertexAtScreenPosition: currentMesh is not a mesh"}

\* C30: every access meshes[k] made by a handler is within the bounds of
\* the cache and currentMesh, when set, refers to a mesh the cache still
\* holds; a failed import does not index an empty cache.
C30_CacheAccessInBounds ==
  /\ fault \notin CacheFaults
  /\ fault = "none" =>
       currentMesh = Null \/ currentMesh \in 0..(Len(meshes) - 1)

=============================================================================
